---- MODULE Spec2Model ----
(***************************************************************************)
(* Pathway hierarchy graph engine (scripts/pathway_v2): the persisted      *)
(* graph (pathways, pathway_parents, pathway_interactions, interactions),  *)
(* the graph algorithms of step6_utils.py and the reorganization phases of *)
(* step6_reorganize_pathways.py.                                           *)
(*                                                                         *)
(* The database is the one models.py declares: pathway names are unique,   *)
(* (child,parent) and (pathway,interaction) pairs are unique, a parent     *)
(* link never joins a pathway to itself (CHECK no_self_parent), and both   *)
(* link tables reference pathways.id with ON DELETE CASCADE.  The tables   *)
(* are therefore sets of pairs over the existing pathway ids, and a write  *)
(* that would break a constraint raises.                                   *)
(***************************************************************************)
EXTENDS Integers, Sequences, FiniteSets, TLC

VARIABLES db, op, args, res, pre, hist, ctl

vars == <<db, op, args, res, pre, hist, ctl>>

(***************************************************************************)
(* Bounds of the model.                                                    *)
(***************************************************************************)
\* most parent links a pathway holds in an initial graph
MaxParents == 2
\* most interactions in an initial database
MaxItems == 1

(***************************************************************************)
(* Names.                                                                  *)
(***************************************************************************)
STRICT_ROOTS ==
    {"Proteostasis", "Metabolism & Bioenergetics", "Membrane & Transport",
     "Genome Maintenance", "Gene Expression", "Signal Transduction",
     "Cytoskeletal Dynamics"}

\* the roots in the order ROOT_KEYWORDS lists them
ROOT_KEYWORDS_order ==
    <<"Proteostasis", "Metabolism & Bioenergetics", "Membrane & Transport",
      "Genome Maintenance", "Gene Expression", "Signal Transduction",
      "Cytoskeletal Dynamics">>

\* the name get_smart_rescue_parent and phase4_interaction_sync fall back to
FallbackName == "Protein Quality Control"

\* ids of the seeded rows: the seven roots (1..7), then the fallback pathway
RootIds == 1..7
FallbackIds == {8}
\* the other pathways of the model, with their names
NodeIds == {9, 10, 11}
\* the roots that hold children in an initial graph
PlayRootIds == {1}

SeedName(i) ==
    CASE i \in RootIds -> ROOT_KEYWORDS_order[i]
      [] i \in FallbackIds -> FallbackName
      [] i = 9  -> "Histone Deacetylation"
      [] i = 10 -> "Mitophagy"
      [] i = 11 -> "Autophagy Signaling"
      [] i = 12 -> "Kinase Cascade"
      [] i \in 21..31 -> <<"Xenophagy A", "Xenophagy B", "Xenophagy C", "Xenophagy D",
                          "Xenophagy E", "Xenophagy F", "Xenophagy G", "Xenophagy H",
                          "Xenophagy I", "Xenophagy J", "Xenophagy K">>[i - 20]
      [] OTHER  -> "Mitophagy Pathway"

\* number of keywords of ROOT_KEYWORDS[root] contained in lower(name)
KeywordScore(name, root) ==
    CASE name = "Histone Deacetylation" /\ root = "Genome Maintenance" -> 1
      [] name = "Autophagy Signaling" /\ root = "Proteostasis" -> 1
      [] name = "Autophagy Signaling" /\ root = "Signal Transduction" -> 1
      [] name = "Kinase Cascade" /\ root = "Signal Transduction" -> 2
      [] name = "Protein Quality Control" /\ root = "Proteostasis" -> 1
      [] OTHER -> 0

(***************************************************************************)
(* Small helpers on sets and sequences.                                    *)
(***************************************************************************)
Range(s) == {s[i] : i \in DOMAIN s}

Min(S) == CHOOSE x \in S : \A y \in S : x <= y

RECURSIVE SortedSeq(_)
\* the elements of a set of integers in ascending order
SortedSeq(S) ==
    IF S = {} THEN <<>> ELSE <<Min(S)>> \o SortedSeq(S \ {Min(S)})

\* all orders in which the rows of a set can come back from a query
Orders(S) ==
    {s \in [1..Cardinality(S) -> S] : \A i, j \in DOMAIN s : i # j => s[i] # s[j]}

IndexOf(s, x) == Min({i \in DOMAIN s : s[i] = x})

(***************************************************************************)
(* The database.                                                           *)
(*   db.pw : pathway id -> [name, level]   (table pathways)                *)
(*   db.pp : set of <<child, parent>>      (table pathway_parents)         *)
(*   db.pi : set of <<pathway, item>>      (table pathway_interactions)    *)
(*   db.ix : interaction id -> row         (table interactions; of the     *)
(*           column data the row keeps hasData, whether the dict is        *)
(*           non-empty, ck, data['_step6_checkpoint'], and two names)      *)
(***************************************************************************)
NoCk == [phase |-> 0, status |-> "none", change_count |-> 0]

PwIds(d) == DOMAIN d.pw

\* Pathway.query.filter_by(name=n).first(): the id, or 0 for None
PathwayByName(d, n) ==
    IF \E i \in PwIds(d) : d.pw[i].name = n
    THEN CHOOSE i \in PwIds(d) : d.pw[i].name = n
    ELSE 0

IsRoot(d, i) == d.pw[i].name \in STRICT_ROOTS

ParentsIn(G, c) == {e[2] : e \in {x \in G : x[1] = c}}

ChildrenIn(G, p) == {e[1] : e \in {x \in G : x[2] = p}}

\* build_parent_graph: child -> parents, here the link set itself
build_parent_graph(d) == d.pp

RECURSIVE AncestorBFS(_, _, _)
AncestorBFS(G, queue, ancestors) ==
    IF queue = {} THEN ancestors
    ELSE LET new == queue \ ancestors
         IN  AncestorBFS(G, UNION {ParentsIn(G, p) : p \in new}, ancestors \cup new)

get_all_ancestors(pathway_id, G) == AncestorBFS(G, ParentsIn(G, pathway_id), {})

\* faulty variant of would_create_cycle: the self-loop test is missing
would_create_cycle_noself(child_id, proposed_parent_id, G) ==
    child_id \in get_all_ancestors(proposed_parent_id, G)

would_create_cycle(child_id, proposed_parent_id, G) ==
    \/ child_id = proposed_parent_id
    \/ child_id \in get_all_ancestors(proposed_parent_id, G)

RECURSIVE dfs(_, _, _, _), dfsParents(_, _, _, _, _)
\* detect_cycle_from_node's inner dfs: [cycle, visited]; <<>> is None
dfs(G, node, visited, path) ==
    dfsParents(G, SortedSeq(ParentsIn(G, node)), 1, visited \cup {node},
               Append(path, node))
dfsParents(G, ps, i, visited, path) ==
    IF i > Len(ps) THEN [cycle |-> <<>>, visited |-> visited]
    ELSE IF ps[i] \in Range(path)
    THEN [cycle |-> SubSeq(path, IndexOf(path, ps[i]), Len(path)) \o <<ps[i]>>,
          visited |-> visited]
    ELSE IF ps[i] \notin visited
    THEN LET r == dfs(G, ps[i], visited, path)
         IN  IF r.cycle # <<>> THEN r
             ELSE dfsParents(G, ps, i + 1, r.visited, path)
    ELSE dfsParents(G, ps, i + 1, visited, path)

detect_cycle_from_node(start_node, G) == dfs(G, start_node, {}, <<>>).cycle

\* the cycle rotated to start (and close) at its smallest id
NormalizeCycle(cycle) ==
    LET body == SubSeq(cycle, 1, Len(cycle) - 1)
        k == IndexOf(body, Min(Range(body)))
    IN  SubSeq(cycle, k, Len(cycle) - 1) \o SubSeq(cycle, 1, k - 1) \o <<cycle[k]>>

RECURSIVE CyclesFrom(_, _, _)
CyclesFrom(G, nodes, cycles) ==
    IF nodes = <<>> THEN cycles
    ELSE LET c == detect_cycle_from_node(Head(nodes), G)
             n == NormalizeCycle(c)
         IN  CyclesFrom(G, Tail(nodes),
                 IF c # <<>> /\ n \notin Range(cycles) THEN Append(cycles, n)
                 ELSE cycles)

find_all_cycles(G) ==
    CyclesFrom(G, SortedSeq({e[1] : e \in G} \cup {e[2] : e \in G}), <<>>)

detect_multi_parent_nodes(G) ==
    {c \in {e[1] : e \in G} : Cardinality(ParentsIn(G, c)) > 1}

RECURSIVE LevelBFS(_, _, _, _)
\* the BFS of recalculate_all_levels, one layer of the queue at a time
LevelBFS(d, frontier, k, lv) ==
    IF frontier = {} THEN lv
    ELSE LET next == {c \in PwIds(d) : lv[c] = -1 /\ ParentsIn(d.pp, c) \cap frontier # {}}
         IN  LevelBFS(d, next, k + 1, [i \in PwIds(d) |-> IF i \in next THEN k + 1 ELSE lv[i]])

recalculate_all_levels(d) ==
    LET roots == {i \in PwIds(d) : IsRoot(d, i)}
        lv == LevelBFS(d, roots, 0, [i \in PwIds(d) |-> IF i \in roots THEN 0 ELSE -1])
    IN  [d EXCEPT !.pw = [i \in PwIds(d) |-> [d.pw[i] EXCEPT !.level = lv[i]]]]

(***************************************************************************)
(* PhaseResult and Change.                                                 *)
(***************************************************************************)
NewResult(name) ==
    [phase_name |-> name, success |-> TRUE, changes |-> <<>>, errors |-> <<>>,
     warnings |-> <<>>]

add_change(r, type, id) == [r EXCEPT !.changes = Append(@, [type |-> type, id |-> id])]

add_error(r, kind, id) == [r EXCEPT !.errors = Append(@, [kind |-> kind, id |-> id])]

add_warning(r, kind, id) == [r EXCEPT !.warnings = Append(@, [kind |-> kind, id |-> id])]

(***************************************************************************)
(* Phase 2: tree enforcement.                                              *)
(* An item is one multi-parent pathway as the phase meets it:              *)
(*   child_id, parent_ids (the parents in row order), selected (the name   *)
(*   the oracle returned, "" for none), error (the oracle call raised).    *)
(***************************************************************************)
NamesOf(d, ids) == [i \in DOMAIN ids |-> d.pw[ids[i]].name]

\* fresh_graph = build_parent_graph(...); fresh_graph[child_id] = [parent]
FreshGraph(d, child_id, parent_id) ==
    {e \in build_parent_graph(d) : e[1] # child_id} \cup {<<child_id, parent_id>>}

RECURSIVE FirstAlternative(_, _, _, _, _)
\* faulty variant of FirstAlternative: the first other parent is taken
\* without the cycle check
FirstAlternative_unchecked(d, child_id, parent_names, selected_name, i) ==
    LET others == {k \in DOMAIN parent_names : parent_names[k] # selected_name}
    IN  IF others = {} THEN 0 ELSE PathwayByName(d, parent_names[Min(others)])

\* the for/else over parent_names: the first other parent that closes no
\* cycle, 0 when the loop ends without a break
FirstAlternative(d, child_id, parent_names, selected_name, i) ==
    IF i > Len(parent_names) THEN 0
    ELSE LET alt == PathwayByName(d, parent_names[i])
         IN  IF /\ parent_names[i] # selected_name
                /\ alt # 0
                /\ ~would_create_cycle(child_id, alt, FreshGraph(d, child_id, alt))
             THEN alt
             ELSE FirstAlternative(d, child_id, parent_names, selected_name, i + 1)

\* delete every parent link of the child but the selected one, and commit
KeepOnlyParent(d, child_id, parent_id) ==
    [d EXCEPT !.pp = {e \in @ : e[1] # child_id \/ e[2] = parent_id}]

\* the body of "for res in results": [d, r] after one item
Phase2Item(d, r, item, dry_run) ==
    LET parent_names == NamesOf(d, item.parent_ids)
        r1 == IF item.error THEN add_warning(r, "oracle_error", item.child_id) ELSE r
        sel1 == IF item.error THEN parent_names[1] ELSE item.selected
        bad == sel1 = "" \/ sel1 \notin Range(parent_names)
        r2 == IF bad THEN add_warning(r1, "invalid_parent", item.child_id) ELSE r1
        sel2 == IF bad THEN parent_names[1] ELSE sel1
        selected_parent == PathwayByName(d, sel2)
        cyc == would_create_cycle(item.child_id, selected_parent,
                                  FreshGraph(d, item.child_id, selected_parent))
        alt == FirstAlternative(d, item.child_id, parent_names, sel2, 1)
        r3 == IF cyc THEN add_warning(r2, "cycle_try_alternative", item.child_id) ELSE r2
        final == IF cyc THEN alt ELSE selected_parent
    IN  IF selected_parent = 0 THEN [d |-> d, r |-> r2]
        ELSE IF cyc /\ alt = 0
        THEN [d |-> d, r |-> add_error(r3, "all_create_cycles", item.child_id)]
        ELSE IF dry_run
        THEN [d |-> d, r |-> add_change(r3, "reparent", item.child_id)]
        ELSE [d |-> KeepOnlyParent(d, item.child_id, final),
              r |-> add_change(r3, "reparent", item.child_id)]

RECURSIVE Phase2Loop(_, _, _, _)
Phase2Loop(d, r, items, dry_run) ==
    IF items = <<>> THEN [d |-> d, r |-> r]
    ELSE LET s == Phase2Item(d, r, Head(items), dry_run)
         IN  Phase2Loop(s.d, s.r, Tail(items), dry_run)

\* the checks that close the phase: cycles fail it, multi-parents only warn
Phase2Verify(d, r) ==
    LET cycles == find_all_cycles(build_parent_graph(d))
        multi == detect_multi_parent_nodes(build_parent_graph(d))
        r1 == IF cycles # <<>>
              THEN [add_error(r, "cycles_detected", Len(cycles)) EXCEPT !.success = FALSE]
              ELSE r
    IN  IF multi # {} THEN add_warning(r1, "multi_parent_remain", Cardinality(multi))
        ELSE r1

phase2_tree_enforcement(d, dry_run, items) ==
    IF detect_multi_parent_nodes(build_parent_graph(d)) = {}
    THEN [d |-> d, r |-> NewResult("Tree Enforcement")]
    ELSE LET s == Phase2Loop(d, NewResult("Tree Enforcement"), items, dry_run)
             d1 == IF ~dry_run /\ s.r.changes # <<>>
                   THEN recalculate_all_levels(s.d) ELSE s.d
         IN  [d |-> d1, r |-> Phase2Verify(d1, s.r)]

\* the item of child c: its parents in row order (by id), and what the oracle
\* can answer: one of the names, a name that is none of them, nothing, or an
\* exception
ItemChoices(d, c) ==
    {[child_id |-> c, parent_ids |-> SortedSeq(ParentsIn(d.pp, c)), selected |-> s,
      error |-> FALSE] :
        s \in {d.pw[p].name : p \in ParentsIn(d.pp, c)} \cup {"", "Not A Parent"}}
    \cup {[child_id |-> c, parent_ids |-> SortedSeq(ParentsIn(d.pp, c)),
           selected |-> "", error |-> TRUE]}

RECURSIVE ItemSeqs(_, _)
\* every order in which the phase can meet the multi-parent pathways S
ItemSeqs(d, S) ==
    IF S = {} THEN {<<>>}
    ELSE UNION {{<<x>> \o rest : x \in ItemChoices(d, c), rest \in ItemSeqs(d, S \ {c})} :
                c \in S}

(***************************************************************************)
(* Initial databases.                                                      *)
(***************************************************************************)
SeedRow(i) == [name |-> SeedName(i), level |-> 0]

\* parent links: roots have none, every other pathway at most MaxParents
InitLinks(nodes, parents) ==
    {UNION {{<<c, p>> : p \in f[c]} : c \in nodes} :
        f \in {g \in [nodes -> SUBSET (nodes \cup parents)] :
                 \A c \in nodes : c \notin g[c] /\ Cardinality(g[c]) <= MaxParents}}

MakeDb(ids, links, assoc, ix) ==
    recalculate_all_levels(
        [pw |-> [i \in ids |-> SeedRow(i)], pp |-> links, pi |-> assoc, ix |-> ix])

NoArgs == [dry_run |-> FALSE]

Idle == [pc |-> 0]

InitTree ==
    /\ db \in {MakeDb(RootIds \cup NodeIds, g, {}, <<>>) : g \in InitLinks(NodeIds, PlayRootIds)}
    /\ op = "init"
    /\ args = NoArgs
    /\ res = NewResult("")
    /\ pre = db
    /\ hist = <<>>
    /\ ctl = Idle

Phase2(dry_run) ==
    /\ op = "init"
    /\ \E items \in ItemSeqs(db, detect_multi_parent_nodes(build_parent_graph(db))) :
         LET out == phase2_tree_enforcement(db, dry_run, items)
         IN  /\ db' = out.d
             /\ res' = out.r
             /\ args' = [dry_run |-> dry_run, items |-> items]
    /\ op' = "phase2"
    /\ pre' = db
    /\ UNCHANGED <<hist, ctl>>

NextTree == \E dry_run \in BOOLEAN : Phase2(dry_run)

SpecTree == InitTree /\ [][NextTree]_vars

(***************************************************************************)
(* Merging one pathway into another: build_merge_migration_plan and        *)
(* execute_migration_plan.  The plan is executed inside one transaction:   *)
(* every write goes to the session's working copy, a write that breaks a   *)
(* constraint (or a database fault) raises, the except clause rolls back.  *)
(***************************************************************************)
build_merge_migration_plan(d, source_id, target_id) ==
    [source_pathway_id |-> source_id,
     target_pathway_id |-> target_id,
     children_to_reparent |-> SortedSeq(ChildrenIn(d.pp, source_id)),
     interactions_to_reassign |-> SortedSeq({e[2] : e \in {x \in d.pi : x[1] = source_id}}),
     parent_links_to_transfer |-> SortedSeq(ParentsIn(d.pp, source_id))]

\* the writes of a plan in the order the three loops make them, then the
\* deletion of the source with the commit
PlanSteps(plan) ==
    [i \in DOMAIN plan.children_to_reparent |->
        [kind |-> "child", id |-> plan.children_to_reparent[i]]]
    \o [i \in DOMAIN plan.interactions_to_reassign |->
        [kind |-> "interaction", id |-> plan.interactions_to_reassign[i]]]
    \o [i \in DOMAIN plan.parent_links_to_transfer |->
        [kind |-> "parent", id |-> plan.parent_links_to_transfer[i]]]
    \o <<[kind |-> "delete_source", id |-> plan.source_pathway_id]>>

\* the child's link to the source: dropped if the target already has the
\* child, else pointed at the target
ReparentChild(w, s, t, c) ==
    IF <<c, s>> \notin w.pp THEN w
    ELSE IF <<c, t>> \in w.pp THEN [w EXCEPT !.pp = @ \ {<<c, s>>}]
    ELSE [w EXCEPT !.pp = (@ \ {<<c, s>>}) \cup {<<c, t>>}]

\* the UPDATE of ReparentChild breaks CHECK no_self_parent
ReparentRaises(w, s, t, c) ==
    <<c, s>> \in w.pp /\ <<c, t>> \notin w.pp /\ c = t

ReassignInteraction(w, s, t, i) ==
    IF <<s, i>> \notin w.pi THEN w
    ELSE IF <<t, i>> \in w.pi THEN [w EXCEPT !.pi = @ \ {<<s, i>>}]
    ELSE [w EXCEPT !.pi = (@ \ {<<s, i>>}) \cup {<<t, i>>}]

\* the source's link to the parent is deleted; the target gets the parent
\* unless it has it already or the parent is the target itself
TransferParent(w, s, t, p) ==
    LET pp1 == w.pp \ {<<s, p>>}
    IN  [w EXCEPT !.pp = IF <<t, p>> \notin pp1 /\ p # t THEN pp1 \cup {<<t, p>>} ELSE pp1]

\* faulty variant of DeletePathway: the row is never deleted
DeletePathway_keep(w, s) == w

\* db.session.delete(pathway): the row goes, and with it every link row
\* that references it (cascade)
DeletePathway(w, s) ==
    [w EXCEPT !.pw = [i \in PwIds(w) \ {s} |-> w.pw[i]],
              !.pp = {e \in @ : e[1] # s /\ e[2] # s},
              !.pi = {e \in @ : e[1] # s}]

ApplyStep(w, plan, step) ==
    LET s == plan.source_pathway_id
        t == plan.target_pathway_id
    IN  CASE step.kind = "child" -> ReparentChild(w, s, t, step.id)
          [] step.kind = "interaction" -> ReassignInteraction(w, s, t, step.id)
          [] step.kind = "parent" -> TransferParent(w, s, t, step.id)
          [] OTHER -> DeletePathway(w, s)

StepRaises(w, plan, step) ==
    /\ step.kind = "child"
    /\ ReparentRaises(w, plan.source_pathway_id, plan.target_pathway_id, step.id)

RECURSIVE RunSteps(_, _, _, _, _)
\* [w, raised_at]: the working copy after the steps, or after the steps
\* before the one that raised; fault is the step at which the database
\* itself fails (0: never)
RunSteps(w, plan, steps, k, fault) ==
    IF k > Len(steps) THEN [w |-> w, raised_at |-> 0]
    ELSE IF k = fault \/ StepRaises(w, plan, steps[k]) THEN [w |-> w, raised_at |-> k]
    ELSE RunSteps(ApplyStep(w, plan, steps[k]), plan, steps, k + 1, fault)

\* faulty variant of Rollback: the writes made before the failure stay
Rollback_partial(d, w) == w

\* db.session.rollback(): the persisted state is the one before the plan
Rollback(d, w) == d

\* [d, ok, error, raised_at]
execute_migration_plan(plan, d, fault) ==
    IF plan.target_pathway_id \notin PwIds(d)
    THEN [d |-> d, ok |-> FALSE, error |-> "target_not_found", raised_at |-> 0]
    ELSE IF plan.source_pathway_id \notin PwIds(d)
    THEN [d |-> d, ok |-> FALSE, error |-> "source_not_found", raised_at |-> 0]
    ELSE LET run == RunSteps(d, plan, PlanSteps(plan), 1, fault)
         IN  IF run.raised_at # 0
             THEN [d |-> Rollback(d, run.w), ok |-> FALSE, error |-> "migration_failed",
                   raised_at |-> run.raised_at]
             ELSE [d |-> run.w, ok |-> TRUE, error |-> "", raised_at |-> 0]

\* 07_merge_duplicate_pathways: the duplicate's links are re-pointed at the
\* canonical pathway; a re-pointed row (canonical, canonical) breaks CHECK
\* no_self_parent at the next flush
MoveParentLink(w, canonical_id, dup_id, p) ==
    IF <<dup_id, p>> \notin w.pp THEN w
    ELSE IF <<canonical_id, p>> \in w.pp THEN [w EXCEPT !.pp = @ \ {<<dup_id, p>>}]
    ELSE [w EXCEPT !.pp = (@ \ {<<dup_id, p>>}) \cup {<<canonical_id, p>>}]

MoveParentLinkRaises(w, canonical_id, dup_id, p) ==
    <<dup_id, p>> \in w.pp /\ <<canonical_id, p>> \notin w.pp /\ p = canonical_id

DupSteps(d, dup_id) ==
    LET plan == build_merge_migration_plan(d, dup_id, dup_id)
    IN  [i \in DOMAIN plan.interactions_to_reassign |->
            [kind |-> "interaction", id |-> plan.interactions_to_reassign[i]]]
        \o [i \in DOMAIN plan.children_to_reparent |->
            [kind |-> "child", id |-> plan.children_to_reparent[i]]]
        \o [i \in DOMAIN plan.parent_links_to_transfer |->
            [kind |-> "parent", id |-> plan.parent_links_to_transfer[i]]]
        \o <<[kind |-> "delete_source", id |-> dup_id]>>

RECURSIVE RunDupSteps(_, _, _, _, _)
RunDupSteps(w, canonical_id, dup_id, steps, k) ==
    IF k > Len(steps) THEN [w |-> w, raised_at |-> 0]
    ELSE LET st == steps[k]
         IN  IF \/ st.kind = "child" /\ ReparentRaises(w, dup_id, canonical_id, st.id)
                \/ st.kind = "parent" /\ MoveParentLinkRaises(w, canonical_id, dup_id, st.id)
             THEN [w |-> w, raised_at |-> k]
             ELSE RunDupSteps(
                    CASE st.kind = "interaction" -> ReassignInteraction(w, dup_id, canonical_id, st.id)
                      [] st.kind = "child" -> ReparentChild(w, dup_id, canonical_id, st.id)
                      [] st.kind = "parent" -> MoveParentLink(w, canonical_id, dup_id, st.id)
                      [] OTHER -> DeletePathway(w, dup_id),
                    canonical_id, dup_id, steps, k + 1)

\* merge_pathways for one duplicate, with the single commit of main(); an
\* exception leaves main() before the commit
merge_pathways(d, canonical_id, dup_id) ==
    IF canonical_id \notin PwIds(d) \/ dup_id = canonical_id \/ dup_id \notin PwIds(d)
    THEN [d |-> d, ok |-> FALSE, error |-> "skipped", raised_at |-> 0]
    ELSE LET run == RunDupSteps(d, canonical_id, dup_id, DupSteps(d, dup_id), 1)
         IN  IF run.raised_at # 0
             THEN [d |-> d, ok |-> FALSE, error |-> "script_failed", raised_at |-> run.raised_at]
             ELSE [d |-> run.w, ok |-> TRUE, error |-> "", raised_at |-> 0]

\* the pathways the model merges: the source, and what it is merged into
MergeSources == {9}
MergeTargets == NodeIds
\* the pathways that hold interactions in an initial database
AssocIds == {9, 10}

Items == 1..MaxItems

\* a row of interactions: hasData (data is a non-empty dict), ck, and the
\* names under data's keys step3_finalized_pathway and step2_proposal ("":
\* no such key)
ItemRow(hasData, step3, step2) ==
    [hasData |-> hasData, ck |-> NoCk, step3_finalized_pathway |-> step3, step2_proposal |-> step2]

InitItems == [i \in Items |-> ItemRow(TRUE, "", "")]

InitMerge ==
    /\ db \in {MakeDb(RootIds \cup NodeIds, g, a, InitItems) :
                 g \in InitLinks(NodeIds, PlayRootIds), a \in SUBSET (AssocIds \X Items)}
    /\ op = "init"
    /\ args = NoArgs
    /\ res = NewResult("")
    /\ pre = db
    /\ hist = <<>>
    /\ ctl = Idle

\* execute_migration_plan(build_merge_migration_plan(source, target))
Merge ==
    /\ op = "init"
    /\ \E s \in MergeSources, t \in MergeTargets :
         LET plan == build_merge_migration_plan(db, s, t)
         IN  \E fault \in 0..Len(PlanSteps(plan)) :
               LET out == execute_migration_plan(plan, db, fault)
               IN  /\ db' = out.d
                   /\ res' = [ok |-> out.ok, error |-> out.error]
                   /\ args' = [source |-> s, target |-> t, plan |-> plan, fault |-> fault]
                   /\ hist' = <<out.raised_at>>
    /\ op' = "merge"
    /\ pre' = db
    /\ UNCHANGED ctl

\* the same plan executed once more after it succeeded
MergeAgain ==
    /\ op = "merge"
    /\ res.ok
    /\ LET out == execute_migration_plan(args.plan, db, 0)
       IN  /\ db' = out.d
           /\ res' = [ok |-> out.ok, error |-> out.error]
           /\ hist' = <<out.raised_at>>
    /\ op' = "merge_again"
    /\ pre' = db
    /\ UNCHANGED <<args, ctl>>

\* the script of 07_merge_duplicate_pathways run on one group of two
MergePathways ==
    /\ op = "init"
    /\ \E dup \in MergeSources, canonical \in MergeTargets :
         LET out == merge_pathways(db, canonical, dup)
         IN  /\ db' = out.d
             /\ res' = [ok |-> out.ok, error |-> out.error]
             /\ args' = [source |-> dup, target |-> canonical,
                         plan |-> build_merge_migration_plan(db, dup, canonical), fault |-> 0]
             /\ hist' = <<out.raised_at>>
    /\ op' = "merge_pathways"
    /\ pre' = db
    /\ UNCHANGED ctl

NextMerge == Merge \/ MergeAgain \/ MergePathways

SpecMerge == InitMerge /\ [][NextMerge]_vars

(***************************************************************************)
(* Rescue of an orphan: _keyword_rescue_match and get_smart_rescue_parent. *)
(* The oracle's answer is carried as the set of STRICT_ROOTS names that    *)
(* contain it or are contained in it ({}: exception, empty or unmatched    *)
(* answer), or as malformed when the value under the key is not a string.  *)
(***************************************************************************)
RECURSIVE KeywordBest(_, _, _, _)
\* the loop over ROOT_KEYWORDS: a later root wins only with a higher score
KeywordBest(name, k, best_match, best_score) ==
    IF k > Len(ROOT_KEYWORDS_order) THEN best_match
    ELSE LET root == ROOT_KEYWORDS_order[k]
             score == KeywordScore(name, root)
         IN  IF score > best_score
             THEN KeywordBest(name, k + 1, root, score)
             ELSE KeywordBest(name, k + 1, best_match, best_score)

\* "" for None
_keyword_rescue_match(name) == KeywordBest(name, 1, "", 0)

\* the pathway ids the call can return: 0 for None, -1 when it raises; the
\* loop over the frozenset STRICT_ROOTS returns the first matching root it
\* meets that is in the table, in an iteration order that is not fixed
get_smart_rescue_parent(d, name, answer) ==
    LET hits == {PathwayByName(d, r) : r \in answer.matches} \ {0}
        kw == _keyword_rescue_match(name)
    IN  IF answer.malformed THEN {-1}
        ELSE IF hits # {} THEN hits
        ELSE IF kw # "" /\ PathwayByName(d, kw) # 0 THEN {PathwayByName(d, kw)}
        ELSE {PathwayByName(d, FallbackName)}

\* the oracle's answers in the rescue model
OracleAnswers ==
    {[malformed |-> FALSE, matches |-> m] :
        m \in {x \in SUBSET STRICT_ROOTS : Cardinality(x) <= 2}}
    \cup {[malformed |-> TRUE, matches |-> {}]}

\* the names rescued
RescueNames == {SeedName(i) : i \in 8..13}

InitRescue ==
    /\ db \in {MakeDb(roots \cup fb, {}, {}, <<>>) :
                 roots \in {RootIds, RootIds \ PlayRootIds}, fb \in SUBSET FallbackIds}
    /\ op = "init"
    /\ args = NoArgs
    /\ res = NewResult("")
    /\ pre = db
    /\ hist = <<>>
    /\ ctl = Idle

Rescue ==
    /\ op = "init"
    /\ \E name \in RescueNames, answer \in OracleAnswers :
         \E found \in get_smart_rescue_parent(db, name, answer) :
            /\ args' = [name |-> name, answer |-> answer]
            /\ res' = [found |-> found]
    /\ op' = "rescue"
    /\ UNCHANGED <<db, pre, hist, ctl>>

SpecRescue == InitRescue /\ [][Rescue]_vars

(***************************************************************************)
(* Phase 5: pruning.  A state of the loop is [d, r, log, raised]; log is   *)
(* the list of deletions, each with what the pathway had when deleted.     *)
(***************************************************************************)
\* faulty variant of HasData: rescued only with interactions and children
HasData_both(interaction_count, child_count) == interaction_count > 0 /\ child_count > 0

\* the pathway has data and is rescued instead of deleted
HasData(interaction_count, child_count) == interaction_count > 0 \/ child_count > 0

\* some root is an ancestor of the pathway in the current edge set
Reachable(d, pw) ==
    \E a \in get_all_ancestors(pw, d.pp) : a \in PwIds(d) /\ IsRoot(d, a)

\* the rescue link: an existing parent row is re-pointed, else a row is added
RescueLink(st, pw, smart, first_min) ==
    LET ps == ParentsIn(st.d.pp, pw)
        existing == IF first_min THEN Min(ps) ELSE -Min({-x : x \in ps})
    IN  IF ps = {}
        THEN [st EXCEPT !.d.pp = @ \cup {<<pw, smart>>}, !.r = add_change(@, "reparent", pw)]
        ELSE IF (existing # smart /\ <<pw, smart>> \in st.d.pp) \/ smart = pw
        THEN [st EXCEPT !.raised = TRUE]
        ELSE [st EXCEPT !.d.pp = (@ \ {<<pw, existing>>}) \cup {<<pw, smart>>},
                        !.r = add_change(@, "reparent", pw)]

Phase5Item(st, pw, dry_run, answer, first_min) ==
    LET interaction_count == Cardinality({e \in st.d.pi : e[1] = pw})
        child_count == Cardinality(ChildrenIn(st.d.pp, pw))
        smart == CHOOSE x \in get_smart_rescue_parent(st.d, st.d.pw[pw].name, answer) : TRUE
    IN  IF st.d.pw[pw].name \in STRICT_ROOTS
        THEN [st EXCEPT !.r = add_warning(@, "root_unreachable", pw)]
        ELSE IF HasData(interaction_count, child_count)
        THEN IF dry_run \/ smart = 0 THEN st ELSE RescueLink(st, pw, smart, first_min)
        ELSE IF dry_run THEN st
        ELSE [st EXCEPT !.d = DeletePathway(@, pw),
                        !.r = add_change(@, "delete", pw),
                        !.log = Append(@, [id |-> pw,
                                           children |-> child_count,
                                           interactions |-> interaction_count,
                                           reachable |-> Reachable(st.d, pw)])]

RECURSIVE Phase5Loop(_, _, _, _, _, _)
Phase5Loop(st, orphans, k, dry_run, answers, first_min) ==
    IF k > Len(orphans) \/ st.raised THEN st
    ELSE Phase5Loop(Phase5Item(st, orphans[k], dry_run, answers[orphans[k]], first_min),
                    orphans, k + 1, dry_run, answers, first_min)

\* Pathway.query.filter_by(hierarchy_level=-1).all(), after the levels were
\* recalculated in a live run
Orphans(d, dry_run) ==
    LET d0 == IF dry_run THEN d ELSE recalculate_all_levels(d)
    IN  {i \in PwIds(d0) : d0.pw[i].level = -1}

\* an exception leaves the phase before its commit: only the levels written
\* at its start are persisted
phase5_pruning(d, dry_run, orphans, answers, first_min) ==
    LET d0 == IF dry_run THEN d ELSE recalculate_all_levels(d)
        st == Phase5Loop([d |-> d0, r |-> NewResult("Pruning"), log |-> <<>>, raised |-> FALSE],
                         orphans, 1, dry_run, answers, first_min)
    IN  IF st.raised THEN [st EXCEPT !.d = d0]
        ELSE IF dry_run THEN st
        ELSE [st EXCEPT !.d = recalculate_all_levels(@)]

\* the oracle's answers in the pruning model
PruneAnswers ==
    {[malformed |-> FALSE, matches |-> m] : m \in {{}, {"Signal Transduction"}}}

\* the fallback pathway, when the table has it, is a child of Proteostasis
InitPrune ==
    /\ db \in {MakeDb(RootIds \cup NodeIds \cup fb, g \cup (fb \X PlayRootIds), a, InitItems) :
                 g \in InitLinks(NodeIds, PlayRootIds), a \in SUBSET (AssocIds \X Items),
                 fb \in SUBSET FallbackIds}
    /\ op = "init"
    /\ args = NoArgs
    /\ res = NewResult("")
    /\ pre = db
    /\ hist = <<>>
    /\ ctl = Idle

Phase5(dry_run) ==
    /\ op = "init"
    /\ \E orphans \in Orders(Orphans(db, dry_run)), first_min \in BOOLEAN :
         \E answers \in [Orphans(db, dry_run) -> PruneAnswers] :
            LET out == phase5_pruning(db, dry_run, orphans, answers, first_min)
            IN  /\ db' = out.d
                /\ res' = out.r
                /\ hist' = out.log
                /\ args' = [dry_run |-> dry_run, orphans |-> orphans, answers |-> answers]
    /\ op' = "phase5"
    /\ pre' = db
    /\ UNCHANGED ctl

NextPrune == \E dry_run \in BOOLEAN : Phase5(dry_run)

SpecPrune == InitPrune /\ [][NextPrune]_vars

(***************************************************************************)
(* Phases 1, 3, 4 and 6.  FOREIGN KEY ... ON DELETE CASCADE keeps link     *)
(* rows from pointing at missing pathways, so the passes over dangling     *)
(* rows find none.                                                         *)
(***************************************************************************)
\* get_similarity(a, b) > 0.85 or containment, on the names of the model
SimilarNames(a, b) == {a, b} = {"Mitophagy", "Mitophagy Pathway"}

\* the candidate pairs among the names of the table
find_duplicate_candidates(d) ==
    {pr \in {"Mitophagy"} \X {"Mitophagy Pathway"} :
        /\ SimilarNames(pr[1], pr[2])
        /\ PathwayByName(d, pr[1]) # 0
        /\ PathwayByName(d, pr[2]) # 0}

\* one entry of the oracle's merges with action MERGE
Phase1Merge(st, m, dry_run) ==
    LET to_keep == m.canonical_name
        to_drop == IF m.name_a # m.canonical_name THEN m.name_a ELSE m.name_b
        keep_pw == PathwayByName(st.d, to_keep)
        drop_pw == PathwayByName(st.d, to_drop)
        out == execute_migration_plan(build_merge_migration_plan(st.d, drop_pw, keep_pw),
                                      st.d, 0)
    IN  IF dry_run THEN [st EXCEPT !.r = add_change(@, "merge", 0)]
        ELSE IF keep_pw = 0 \/ drop_pw = 0
        THEN [st EXCEPT !.r = add_warning(@, "merge_not_found", 0)]
        ELSE IF out.ok THEN [d |-> out.d, r |-> add_change(st.r, "merge", drop_pw)]
        ELSE [st EXCEPT !.r = add_error(@, "merge_failed", drop_pw)]

RECURSIVE Phase1Loop(_, _, _, _)
Phase1Loop(st, merges, k, dry_run) ==
    IF k > Len(merges) THEN st
    ELSE Phase1Loop(Phase1Merge(st, merges[k], dry_run), merges, k + 1, dry_run)

phase1_deduplication(d, dry_run, merges) ==
    IF find_duplicate_candidates(d) = {}
    THEN [d |-> d, r |-> NewResult("Deduplication")]
    ELSE Phase1Loop([d |-> d, r |-> NewResult("Deduplication")], merges, 1, dry_run)

\* the pairs the oracle can name in its merges: the names are taken from
\* the response as they come, so a pair need not be one of the candidates
MergePairs(d) ==
    IF find_duplicate_candidates(d) = {} THEN {}
    ELSE find_duplicate_candidates(d) \cup {<<"Proteostasis", "Mitophagy">>}

\* what the oracle can answer for the candidates: no merge, or one merge
\* of a pair with either name as canonical
MergeAnswers(d) ==
    {<<>>} \cup
    UNION {{<<[canonical_name |-> c, name_a |-> pr[1], name_b |-> pr[2]]>> :
               c \in {pr[1], pr[2]}} : pr \in MergePairs(d)}

LEGITIMATE_LEVEL1 ==
    {"Apoptosis", "Autophagy", "Necroptosis", "Ferroptosis", "MAPK Signaling",
     "PI3K/Akt Signaling", "Wnt Signaling", "Notch Signaling", "Glycolysis",
     "Oxidative Phosphorylation", "Mitosis", "Meiosis"}

\* the id the table gives a pathway created by phase 3
NewIds == {12}

\* pass B for one level-1 pathway; answer is "keep" (no intermediate),
\* "error" (the oracle call raised) or the name of the intermediate
Phase3Item(st, pw, dry_run, answer, first_min) ==
    LET ps == ParentsIn(st.d.pp, pw)
        root == IF first_min THEN Min(ps) ELSE -Min({-x : x \in ps})
        found == PathwayByName(st.d, answer)
        new == CHOOSE i \in NewIds : TRUE
        intermediate == IF found # 0 THEN found ELSE new
        d1 == IF found # 0 THEN st.d
              ELSE [st.d EXCEPT !.pw = [i \in PwIds(st.d) \cup {new} |->
                                           IF i = new THEN [name |-> answer, level |-> 1]
                                           ELSE st.d.pw[i]],
                                !.pp = @ \cup {<<new, root>>}]
        r1 == IF found # 0 THEN st.r ELSE add_change(st.r, "create", new)
    IN  IF st.d.pw[pw].name \in LEGITIMATE_LEVEL1 \/ ps = {} THEN st
        ELSE IF ~IsRoot(st.d, root) THEN st
        ELSE IF answer = "error" THEN [st EXCEPT !.r = add_error(@, "deepen_error", pw)]
        ELSE IF answer = "keep" THEN st
        ELSE IF answer = st.d.pw[pw].name \/ answer = st.d.pw[root].name
        THEN [st EXCEPT !.r = add_warning(@, "invalid_intermediate", pw)]
        ELSE IF dry_run THEN [st EXCEPT !.deepened = @ + 1]
        ELSE IF <<pw, intermediate>> \in st.d.pp
        THEN [st EXCEPT !.raised = TRUE]
        ELSE [st EXCEPT !.d = [d1 EXCEPT !.pp = (@ \ {<<pw, root>>}) \cup {<<pw, intermediate>>}],
                        !.r = add_change(r1, "reparent", pw),
                        !.deepened = @ + 1]

RECURSIVE Phase3Loop(_, _, _, _, _, _)
Phase3Loop(st, level1, k, dry_run, answers, first_min) ==
    IF k > Len(level1) \/ st.raised THEN st
    ELSE Phase3Loop(Phase3Item(st, level1[k], dry_run, answers[level1[k]], first_min),
                    level1, k + 1, dry_run, answers, first_min)

\* Pathway.query.filter_by(hierarchy_level=1).all() of pass B
Level1(d, dry_run) ==
    LET d0 == IF dry_run THEN d ELSE recalculate_all_levels(d)
    IN  {i \in PwIds(d0) : d0.pw[i].level = 1}

phase3_hierarchy_repair(d, dry_run, level1, answers, first_min) ==
    LET d0 == IF dry_run THEN d ELSE recalculate_all_levels(d)
        st == Phase3Loop([d |-> d0, r |-> NewResult("Hierarchy Repair"), deepened |-> 0,
                          raised |-> FALSE], level1, 1, dry_run, answers, first_min)
    IN  IF ~dry_run /\ st.deepened > 0 /\ ~st.raised
        THEN [st EXCEPT !.d = recalculate_all_levels(@)]
        ELSE st

validate_no_orphan_interactions(d) == {i \in DOMAIN d.ix : \A e \in d.pi : e[2] # i}

\* faulty variant of Phase4Item: the association with the fallback pathway
\* is written whether or not the run is a dry run
Phase4Item_write(st, int_id, fallback, dry_run) ==
    [st EXCEPT !.d.pi = @ \cup {<<fallback, int_id>>}]

\* one interaction without pathway: the pathway named in its data, else the
\* fallback; the row's data is written through an assignment only when it
\* was empty, and is non-empty afterwards either way
Phase4Item(st, int_id, fallback, dry_run) ==
    LET row == st.d.ix[int_id]
        by3 == IF row.step3_finalized_pathway # ""
               THEN PathwayByName(st.d, row.step3_finalized_pathway) ELSE 0
        by2 == IF row.step2_proposal # ""
               THEN PathwayByName(st.d, row.step2_proposal) ELSE 0
        assigned == IF by3 # 0 THEN by3 ELSE IF by2 # 0 THEN by2 ELSE fallback
        r1 == IF by3 = 0 /\ by2 = 0 THEN add_warning(st.r, "fallback_assigned", int_id)
              ELSE st.r
    IN  IF dry_run THEN [st EXCEPT !.r = r1]
        ELSE [d |-> [st.d EXCEPT !.pi = @ \cup {<<assigned, int_id>>},
                                 !.ix[int_id].hasData = TRUE],
              r |-> add_change(r1, "reassign_interaction", int_id)]

RECURSIVE Phase4Loop(_, _, _, _, _)
Phase4Loop(st, orphan_ids, k, fallback, dry_run) ==
    IF k > Len(orphan_ids) THEN st
    ELSE Phase4Loop(Phase4Item(st, orphan_ids[k], fallback, dry_run),
                    orphan_ids, k + 1, fallback, dry_run)

phase4_interaction_sync(d, dry_run) ==
    LET r0 == NewResult("Interaction Sync")
        fallback == PathwayByName(d, FallbackName)
        st == Phase4Loop([d |-> d, r |-> r0], SortedSeq(validate_no_orphan_interactions(d)),
                         1, fallback, dry_run)
    IN  IF fallback = 0
        THEN [d |-> d, r |-> [add_error(r0, "fallback_missing", 0) EXCEPT !.success = FALSE]]
        ELSE IF ~dry_run /\ validate_no_orphan_interactions(st.d) # {}
        THEN [st EXCEPT !.r = [add_error(@, "still_orphaned", 0) EXCEPT !.success = FALSE]]
        ELSE st

\* the six checks; a failed check or a cycle fails the phase
phase6_preflight(d) ==
    LET r0 == NewResult("Pre-Flight Validation")
        roots == {i \in PwIds(d) : IsRoot(d, i)}
        missing_roots == STRICT_ROOTS \ {d.pw[i].name : i \in roots}
        r1 == IF missing_roots # {} THEN add_error(r0, "missing_roots", Cardinality(missing_roots))
              ELSE IF \E i \in roots : d.pw[i].level # 0 THEN add_warning(r0, "roots_not_level0", 0)
              ELSE r0
        orphan_count == Cardinality({i \in PwIds(d) : d.pw[i].level = -1})
        r2 == IF orphan_count > 0 THEN add_error(r1, "unreachable", orphan_count) ELSE r1
        multi_parent == detect_multi_parent_nodes(build_parent_graph(d))
        r3 == IF multi_parent # {} THEN add_warning(r2, "multi_parent_remain", Cardinality(multi_parent))
              ELSE r2
        cycles == find_all_cycles(build_parent_graph(d))
        r4 == IF cycles # <<>> THEN add_error(r3, "cycles_detected", Len(cycles)) ELSE r3
        orphan_interactions == validate_no_orphan_interactions(d)
        r5 == IF orphan_interactions # {}
              THEN add_error(r4, "orphan_interactions", Cardinality(orphan_interactions)) ELSE r4
    IN  [d |-> d, r |-> [r5 EXCEPT !.success = (r5.errors = <<>>)]]

(***************************************************************************)
(* Checkpoints and the run: reorganize_pathways.                           *)
(* ctl = [pc, dry_run, start_phase, row, crashed]: pc is the phase the run *)
(* is about to enter (7: past the last), row the interaction that          *)
(* Interaction.query.first() returns in this run (0: the table is empty).  *)
(* hist lists the executed phases, each with its success, its number of    *)
(* changes and the checkpoint load_checkpoint returns after it.            *)
(***************************************************************************)
\* data['_step6_checkpoint'] = checkpoint mutates the dict in place: the
\* commit writes it only when data was assigned in the same call, which
\* happens when data was empty
save_checkpoint(d, row, phase, status, change_count) ==
    IF row = 0 THEN d
    ELSE IF ~d.ix[row].hasData
    THEN [d EXCEPT !.ix[row].hasData = TRUE,
                   !.ix[row].ck = [phase |-> phase, status |-> status,
                                   change_count |-> change_count]]
    ELSE d

load_checkpoint(d, row) ==
    IF row # 0 /\ d.ix[row].hasData THEN d.ix[row].ck ELSE NoCk

\* the rows an initial interaction can have
RunItemRows ==
    {ItemRow(FALSE, "", ""), ItemRow(TRUE, "", ""), ItemRow(TRUE, "", SeedName(10))}

\* the initial graphs of the run model: 10 and 11 are children of 9
RunLinks ==
    {g \in InitLinks(NodeIds, PlayRootIds) :
        {<<10, 9>>, <<11, 9>>} \subseteq g /\ ParentsIn(g, 11) = {9}}

\* the pathway with a name similar to that of pathway 10
DupIds == {13}

\* the fallback pathway and the similar-named pathway, when the table has
\* them, are children of Proteostasis
InitRun ==
    /\ db \in {MakeDb(RootIds \cup NodeIds \cup more, g \cup (more \X PlayRootIds), a, ix) :
                 g \in RunLinks, more \in SUBSET (FallbackIds \cup DupIds),
                 a \in SUBSET ({9} \X Items), ix \in {[i \in Items |-> row] : row \in RunItemRows}}
             \cup
             {MakeDb(RootIds \cup NodeIds \cup more, g \cup (more \X PlayRootIds), {}, <<>>) :
                 g \in RunLinks, more \in SUBSET (FallbackIds \cup DupIds)}
    /\ op = "init"
    /\ args = NoArgs
    /\ res = NewResult("")
    /\ pre = db
    /\ hist = <<>>
    /\ ctl = Idle

\* reorganize_pathways(dry_run, start_phase) is called
Start ==
    /\ op = "init"
    /\ \E dry_run \in BOOLEAN, start_phase \in 1..6, row \in DOMAIN db.ix \cup {0} :
         /\ (row = 0) = (DOMAIN db.ix = {})
         /\ ctl' = [pc |-> start_phase, dry_run |-> dry_run, start_phase |-> start_phase,
                    row |-> row, crashed |-> FALSE]
         /\ args' = [dry_run |-> dry_run, start_phase |-> start_phase]
    /\ op' = "run"
    /\ pre' = db
    /\ UNCHANGED <<db, res, hist>>

\* what follows a phase in the run: the result is kept and, in a live run,
\* the checkpoint is saved; an exception out of the phase ends the run
AfterPhase(k, out, raised) ==
    LET status == IF out.r.success THEN "complete" ELSE "failed"
        d1 == IF ctl.dry_run THEN out.d
              ELSE save_checkpoint(out.d, ctl.row, k, status, Len(out.r.changes))
    IN  /\ op' = "run"
        /\ pre' = db
        /\ UNCHANGED args
        /\ IF raised
           THEN /\ db' = out.d
                /\ ctl' = [ctl EXCEPT !.pc = 7, !.crashed = TRUE]
                /\ UNCHANGED <<res, hist>>
           ELSE /\ db' = d1
                /\ res' = out.r
                /\ ctl' = [ctl EXCEPT !.pc = k + 1]
                /\ hist' = Append(hist, [phase |-> k, success |-> out.r.success,
                                         change_count |-> Len(out.r.changes),
                                         ck |-> load_checkpoint(d1, ctl.row)])

Run1 ==
    /\ op = "run" /\ ctl.pc = 1
    /\ \E merges \in MergeAnswers(db) :
         AfterPhase(1, phase1_deduplication(db, ctl.dry_run, merges), FALSE)

\* in the run the oracle of phase 2 names one of the parents
RunItemSeqs(d) ==
    {s \in ItemSeqs(d, detect_multi_parent_nodes(build_parent_graph(d))) :
        \A i \in DOMAIN s : ~s[i].error /\ s[i].selected \notin {"", "Not A Parent"}}

Run2 ==
    /\ op = "run" /\ ctl.pc = 2
    /\ \E items \in RunItemSeqs(db) :
         AfterPhase(2, phase2_tree_enforcement(db, ctl.dry_run, items), FALSE)

\* the database fails while phase 2 handles its k-th item: the loop has no
\* handler, the items before it were committed one by one, and the
\* exception leaves reorganize_pathways
Run2Fault ==
    /\ op = "run" /\ ctl.pc = 2
    /\ \E items \in RunItemSeqs(db) :
         \E k \in DOMAIN items :
            AfterPhase(2, Phase2Loop(db, NewResult("Tree Enforcement"),
                                     SubSeq(items, 1, k - 1), ctl.dry_run), TRUE)

\* in the run the oracle of phase 3 gives every level-1 pathway the same
\* answer
Run3 ==
    /\ op = "run" /\ ctl.pc = 3
    /\ \E level1 \in Orders(Level1(db, ctl.dry_run)), answer \in {"keep", "error", SeedName(12)} :
         LET out == phase3_hierarchy_repair(db, ctl.dry_run, level1,
                                            [i \in Level1(db, ctl.dry_run) |-> answer], TRUE)
         IN  AfterPhase(3, out, out.raised)

Run4 ==
    /\ op = "run" /\ ctl.pc = 4
    /\ AfterPhase(4, phase4_interaction_sync(db, ctl.dry_run), FALSE)

\* in the run the oracle of phase 5 fails: rescues go by keyword
Run5 ==
    /\ op = "run" /\ ctl.pc = 5
    /\ \E orphans \in Orders(Orphans(db, ctl.dry_run)) :
         LET out == phase5_pruning(db, ctl.dry_run, orphans,
                                   [i \in Orphans(db, ctl.dry_run) |->
                                       [malformed |-> FALSE, matches |-> {}]], TRUE)
         IN  AfterPhase(5, out, out.raised)

Run6 ==
    /\ op = "run" /\ ctl.pc = 6
    /\ AfterPhase(6, phase6_preflight(db), FALSE)

NextRun == Start \/ Run1 \/ Run2 \/ Run2Fault \/ Run3 \/ Run4 \/ Run5 \/ Run6

SpecRun == InitRun /\ [][NextRun]_vars

(***************************************************************************)
(* The preflight as a function of the table it reads.  The table is one    *)
(* that earlier steps left: a root may be missing, and the classification  *)
(* scripts may have stored level 1 on an existing pathway that carries a   *)
(* root's name (03_classify_existing_pathways.py, lines 74-83).            *)
(***************************************************************************)
StaleRootIds == {6}

InitPreflight ==
    /\ db \in {[d EXCEPT !.pw = [i \in PwIds(d) |->
                    IF i \in stale THEN [d.pw[i] EXCEPT !.level = 1] ELSE d.pw[i]]] :
                 d \in {MakeDb((RootIds \ gone) \cup NodeIds, g, a, ix) :
                          gone \in {{}, {7}}, g \in InitLinks(NodeIds, PlayRootIds),
                          a \in SUBSET ({9} \X Items),
                          ix \in {[i \in Items |-> row] : row \in RunItemRows}},
                 stale \in SUBSET StaleRootIds}
    /\ op = "init"
    /\ args = NoArgs
    /\ res = NewResult("")
    /\ pre = db
    /\ hist = <<>>
    /\ ctl = Idle

Preflight ==
    /\ op = "init"
    /\ res' = phase6_preflight(db).r
    /\ op' = "preflight"
    /\ pre' = db
    /\ UNCHANGED <<db, args, hist, ctl>>

SpecPreflight == InitPreflight /\ [][Preflight]_vars

(***************************************************************************)
(* Verification: step7_checks.py, step7_repairs.py, verify_pipeline.py.    *)
(* Here a row of pathways also carries is_leaf, ancestor_ids (a list) and  *)
(* usage_count.  An issue is [check_name, severity, entity_id (0: None),   *)
(* auto_fixable, name (the root named in a "Missing root pathway" message, *)
(* "" in every other message)].  Rows come back from a query in id order.  *)
(* The checks for dangling references, duplicate names and empty names     *)
(* find nothing: foreign keys and the unique index rule the first two out, *)
(* and no name of the model is empty.                                      *)
(***************************************************************************)
Take(s, n) == SubSeq(s, 1, IF Len(s) < n THEN Len(s) ELSE n)

Issue(check_name, severity, entity_id, auto_fixable, name) ==
    [check_name |-> check_name, severity |-> severity, entity_id |-> entity_id,
     auto_fixable |-> auto_fixable, name |-> name]

\* a CheckResult after its add_issue calls: a HIGH or CRITICAL issue fails it
CheckResult(check_name, passed, issues) ==
    [check_name |-> check_name,
     passed |-> passed /\ \A k \in DOMAIN issues : issues[k].severity \notin {"high", "critical"},
     issues |-> issues]

\* parent_map[c] of the dict comprehension over the link rows: the last row
\* of c wins
parent_map(G, c) == CHOOSE p \in ParentsIn(G, c) : \A q \in ParentsIn(G, c) : q <= p

RECURSIVE get_actual_ancestors(_, _, _, _)
\* the walk "while current in parent_map and current not in visited"
get_actual_ancestors(G, current, visited, ancestors) ==
    IF ParentsIn(G, current) = {} \/ current \in visited THEN ancestors
    ELSE get_actual_ancestors(G, parent_map(G, current), visited \cup {current},
                              Append(ancestors, parent_map(G, current)))

\* check_interactions_have_pathway, check_pathway_references_valid,
\* check_interaction_data_consistency
InteractionChecks(d) ==
    LET orphans == SortedSeq(validate_no_orphan_interactions(d))
        listed == Take(orphans, 20)
        withData == {i \in DOMAIN d.ix : d.ix[i].hasData}
        missing_step3 == {i \in withData : d.ix[i].step3_finalized_pathway = ""}
        step3_without_step2 ==
            {i \in withData : d.ix[i].step3_finalized_pathway # "" /\ d.ix[i].step2_proposal = ""}
    IN  << CheckResult("interactions_have_pathway", orphans = <<>>,
               [k \in DOMAIN listed |->
                   Issue("interactions_have_pathway", "medium", listed[k], TRUE, "")]
               \o (IF Len(orphans) > 20
                   THEN <<Issue("interactions_have_pathway", "high", 0, FALSE, "")>>
                   ELSE <<>>)),
           CheckResult("pathway_references_valid", TRUE, <<>>),
           CheckResult("interaction_data_consistency", TRUE,
               (IF missing_step3 # {}
                THEN <<Issue("interaction_data_consistency", "low", 0, FALSE, "")>> ELSE <<>>)
               \o (IF step3_without_step2 # {}
                   THEN <<Issue("interaction_data_consistency", "low", 0, FALSE, "")>>
                   ELSE <<>>)) >>

\* check_all_roots_exist, check_no_duplicate_names, check_no_empty_names,
\* check_usage_count_accuracy
PathwayChecks(d) ==
    LET found_names == {d.pw[i].name : i \in PwIds(d)} \cap STRICT_ROOTS
        IsMissing(n) == n \notin found_names
        missing == SelectSeq(ROOT_KEYWORDS_order, IsMissing)
        wrong_level == SortedSeq({i \in PwIds(d) : IsRoot(d, i) /\ d.pw[i].level # 0})
        mismatches ==
            Take(SortedSeq({i \in PwIds(d) :
                    d.pw[i].usage_count # Cardinality({e \in d.pi : e[1] = i})}), 10)
    IN  << CheckResult("all_roots_exist", missing = <<>>,
               [k \in DOMAIN missing |-> Issue("all_roots_exist", "critical", 0, TRUE, missing[k])]
               \o [k \in DOMAIN wrong_level |->
                      Issue("all_roots_exist", "medium", wrong_level[k], TRUE, "")]),
           CheckResult("no_duplicate_names", TRUE, <<>>),
           CheckResult("no_empty_names", TRUE, <<>>),
           CheckResult("usage_count_accuracy", TRUE,
               [k \in DOMAIN mismatches |->
                   Issue("usage_count_accuracy", "low", mismatches[k], TRUE, "")]) >>

\* check_no_cycles, check_single_parent, check_no_orphan_pathways,
\* check_parent_exists, check_levels_correct, check_ancestor_ids_accurate,
\* check_is_leaf_accurate
HierarchyChecks(d) ==
    LET G == d.pp
        find_cycle(start) == detect_cycle_from_node(start, G) # <<>>
        cycles == SelectSeq(SortedSeq({e[1] : e \in G}), find_cycle)
        multi_parent == Take(SortedSeq(detect_multi_parent_nodes(G)), 10)
        orphans == SortedSeq({i \in PwIds(d) : d.pw[i].level = -1})
        incorrect ==
            Take(SortedSeq({e[1] : e \in {x \in G : d.pw[x[1]].level # d.pw[x[2]].level + 1}}), 10)
        ancestor_mismatches ==
            Take(SortedSeq({i \in PwIds(d) :
                    Range(get_actual_ancestors(G, i, {}, <<>>)) # Range(d.pw[i].ancestor_ids)}), 5)
        leaf_incorrect ==
            Take(SortedSeq({i \in PwIds(d) : d.pw[i].is_leaf # (ChildrenIn(G, i) = {})}), 10)
    IN  << CheckResult("no_cycles", cycles = <<>>,
               [k \in DOMAIN Take(cycles, 5) |-> Issue("no_cycles", "critical", 0, FALSE, "")]),
           CheckResult("single_parent", TRUE,
               [k \in DOMAIN multi_parent |->
                   Issue("single_parent", "medium", multi_parent[k], TRUE, "")]),
           CheckResult("no_orphan_pathways", orphans = <<>>,
               [k \in DOMAIN Take(orphans, 10) |->
                   Issue("no_orphan_pathways", "medium", orphans[k], TRUE, "")]
               \o (IF Len(orphans) > 10
                   THEN <<Issue("no_orphan_pathways", "high", 0, FALSE, "")>> ELSE <<>>)),
           CheckResult("parent_exists", TRUE, <<>>),
           CheckResult("levels_correct", TRUE,
               [k \in DOMAIN incorrect |-> Issue("levels_correct", "low", incorrect[k], TRUE, "")]),
           CheckResult("ancestor_ids_accurate", TRUE,
               [k \in DOMAIN ancestor_mismatches |->
                   Issue("ancestor_ids_accurate", "low", ancestor_mismatches[k], TRUE, "")]),
           CheckResult("is_leaf_accurate", TRUE,
               [k \in DOMAIN leaf_incorrect |->
                   Issue("is_leaf_accurate", "low", leaf_incorrect[k], TRUE, "")]) >>

run_all_checks(d) == InteractionChecks(d) \o PathwayChecks(d) \o HierarchyChecks(d)

RECURSIVE get_all_issues(_)
get_all_issues(results) ==
    IF results = <<>> THEN <<>>
    ELSE Head(results).issues \o get_all_issues(Tail(results))

recalculate_all_usage_counts(d) ==
    [d EXCEPT !.pw = [i \in PwIds(d) |->
        [d.pw[i] EXCEPT !.usage_count = Cardinality({e \in d.pi : e[1] = i})]]]

recalculate_all_is_leaf(d) ==
    [d EXCEPT !.pw = [i \in PwIds(d) |-> [d.pw[i] EXCEPT !.is_leaf = (ChildrenIn(d.pp, i) = {})]]]

recalculate_all_ancestor_ids(d) ==
    [d EXCEPT !.pw = [i \in PwIds(d) |->
        [d.pw[i] EXCEPT !.ancestor_ids = get_actual_ancestors(d.pp, i, {}, <<>>)]]]

\* the id the table gives a root created by repair_missing_root
NewRootId(name) == 30 + IndexOf(ROOT_KEYWORDS_order, name)

\* each repair returns [d, success]; a repair that fails has rolled back
repair_missing_root(d, name) ==
    LET existing == PathwayByName(d, name)
        new == NewRootId(name)
    IN  IF existing # 0
        THEN [d |-> [d EXCEPT !.pw[existing].level = 0, !.pw[existing].is_leaf = FALSE],
              success |-> TRUE]
        ELSE [d |-> [d EXCEPT !.pw = [i \in PwIds(d) \cup {new} |->
                        IF i = new
                        THEN [name |-> name, level |-> 0, is_leaf |-> FALSE,
                              ancestor_ids |-> <<>>, usage_count |-> 0]
                        ELSE d.pw[i]]],
              success |-> TRUE]

repair_root_level(d, pathway_id) ==
    IF pathway_id \notin PwIds(d) THEN [d |-> d, success |-> FALSE]
    ELSE [d |-> [d EXCEPT !.pw[pathway_id].level = 0], success |-> TRUE]

repair_orphan_interaction(d, interaction_id) ==
    LET row == d.ix[interaction_id]
        by3 == IF row.hasData /\ row.step3_finalized_pathway # ""
               THEN PathwayByName(d, row.step3_finalized_pathway) ELSE 0
        by2 == IF row.hasData /\ row.step2_proposal # ""
               THEN PathwayByName(d, row.step2_proposal) ELSE 0
        assigned_pathway == IF by3 # 0 THEN by3
                            ELSE IF by2 # 0 THEN by2 ELSE PathwayByName(d, FallbackName)
    IN  IF interaction_id \notin DOMAIN d.ix \/ assigned_pathway = 0
        THEN [d |-> d, success |-> FALSE]
        ELSE [d |-> [d EXCEPT !.pi = @ \cup {<<assigned_pathway, interaction_id>>},
                              !.ix[interaction_id].hasData = TRUE],
              success |-> TRUE]

\* the rescue link: the first link row of the pathway is re-pointed, else a
\* row is added; a row that breaks the unique index or CHECK no_self_parent
\* fails the commit
repair_orphan_pathway(d, pathway_id, answer) ==
    LET smart_parent == CHOOSE x \in get_smart_rescue_parent(d, d.pw[pathway_id].name, answer) : TRUE
        ps == ParentsIn(d.pp, pathway_id)
        existing == Min(ps)
        pp1 == IF ps = {} THEN d.pp \cup {<<pathway_id, smart_parent>>}
               ELSE (d.pp \ {<<pathway_id, existing>>}) \cup {<<pathway_id, smart_parent>>}
    IN  IF pathway_id \notin PwIds(d) THEN [d |-> d, success |-> FALSE]
        ELSE IF IsRoot(d, pathway_id)
        THEN [d |-> [d EXCEPT !.pw[pathway_id].level = 0], success |-> TRUE]
        ELSE IF smart_parent <= 0 THEN [d |-> d, success |-> FALSE]
        ELSE IF smart_parent = pathway_id
                \/ (ps # {} /\ existing # smart_parent /\ <<pathway_id, smart_parent>> \in d.pp)
        THEN [d |-> d, success |-> FALSE]
        ELSE [d |-> [d EXCEPT !.pp = pp1, !.pw[pathway_id].level = 1], success |-> TRUE]

\* the routing of one issue: [d, success, routed]
RepairIssue(d, issue, answer) ==
    LET none == [d |-> d, success |-> FALSE, routed |-> FALSE]
        Routed(r) == [d |-> r.d, success |-> r.success, routed |-> TRUE]
    IN  CASE issue.check_name = "all_roots_exist" /\ issue.name # "" ->
                Routed(repair_missing_root(d, issue.name))
          [] issue.check_name = "all_roots_exist" /\ issue.name = "" /\ issue.entity_id # 0 ->
                Routed(repair_root_level(d, issue.entity_id))
          [] issue.check_name = "interactions_have_pathway" /\ issue.entity_id # 0 ->
                Routed(repair_orphan_interaction(d, issue.entity_id))
          [] issue.check_name = "no_orphan_pathways" /\ issue.entity_id # 0 ->
                Routed(repair_orphan_pathway(d, issue.entity_id, answer))
          [] OTHER -> none

RECURSIVE RepairLoop(_, _, _, _)
\* st = [d, results]: results lists the repairs made, each with the issue's
\* check and severity and whether it succeeded
RepairLoop(st, issues, k, answer) ==
    IF k > Len(issues) THEN st
    ELSE LET issue == issues[k]
             r == RepairIssue(st.d, issue, answer)
         IN  IF ~issue.auto_fixable \/ issue.severity = "low" \/ ~r.routed
             THEN RepairLoop(st, issues, k + 1, answer)
             ELSE RepairLoop([d |-> r.d,
                              results |-> Append(st.results,
                                  [check_name |-> issue.check_name, severity |-> issue.severity,
                                   entity_id |-> issue.entity_id, success |-> r.success])],
                             issues, k + 1, answer)

\* the batch recalculations run first, when some issue is LOW
run_auto_repairs(issues, d, answer) ==
    LET d0 == IF \E k \in DOMAIN issues : issues[k].severity = "low"
              THEN recalculate_all_ancestor_ids(recalculate_all_is_leaf(
                       recalculate_all_usage_counts(recalculate_all_levels(d))))
              ELSE d
    IN  RepairLoop([d |-> d0, results |-> <<>>], issues, 1, answer)

\* the issues that block: HIGH, CRITICAL, and MEDIUM that cannot be fixed
BlockingIssues(issues) ==
    LET Blocks(i) == \/ i.severity \in {"high", "critical"}
                     \/ i.severity = "medium" /\ ~i.auto_fixable
    IN  SelectSeq(issues, Blocks)

\* [d, status, issues, checks, repairs]: issues and checks are those of the
\* last check run
run_verification(d, auto_fix, report_only, answer) ==
    LET checks1 == run_all_checks(d)
        issues1 == get_all_issues(checks1)
        status1 ==
            IF \E k \in DOMAIN issues1 : issues1[k].severity = "critical" THEN "CRITICAL_FAIL"
            ELSE IF BlockingIssues(issues1) # <<>> /\ ~auto_fix THEN "FAIL"
            ELSE IF issues1 # <<>> THEN (IF auto_fix THEN "PASS_WITH_FIXES" ELSE "FAIL")
            ELSE "PASS"
        IsFixable(i) == i.auto_fixable
        fixable == SelectSeq(issues1, IsFixable)
        rep == run_auto_repairs(fixable, d, answer)
        checks2 == run_all_checks(rep.d)
        issues2 == get_all_issues(checks2)
        IsSuccess(r) == r.success
        status2 == IF BlockingIssues(issues2) # <<>> THEN "FAIL"
                   ELSE IF SelectSeq(rep.results, IsSuccess) # <<>> THEN "PASS_WITH_FIXES"
                   ELSE "PASS"
    IN  IF auto_fix /\ ~report_only /\ issues1 # <<>> /\ fixable # <<>>
        THEN [d |-> rep.d, status |-> status2, issues |-> issues2, checks |-> checks2,
              repairs |-> rep.results]
        ELSE [d |-> d, status |-> status1, issues |-> issues1, checks |-> checks1,
              repairs |-> <<>>]

\* the exit code of the command line
ExitCode(status) == IF status \in {"PASS", "PASS_WITH_FIXES"} THEN 0 ELSE 1

\* the pathways of the verification model: 9 and 10 with at most one parent
\* each, and eleven more that have no link at all
VerifyNodeIds == {9, 10}
ExtraIds == 21..31

VerifyLinks ==
    {g \in InitLinks(VerifyNodeIds, PlayRootIds) :
        \A c \in VerifyNodeIds : Cardinality(ParentsIn(g, c)) <= 1}

\* the derived attributes as step 6 leaves them: levels recalculated, the
\* others either accurate or still at their column defaults
WithDerived(d, fresh) ==
    LET d0 == [d EXCEPT !.pw = [i \in PwIds(d) |->
                  [name |-> d.pw[i].name, level |-> d.pw[i].level, is_leaf |-> TRUE,
                   ancestor_ids |-> <<>>, usage_count |-> 0]]]
    IN  IF fresh
        THEN recalculate_all_ancestor_ids(recalculate_all_is_leaf(recalculate_all_usage_counts(d0)))
        ELSE d0

InitVerify ==
    /\ db \in {WithDerived(MakeDb((RootIds \ gone) \cup VerifyNodeIds \cup fb \cup extra,
                                  g \cup (fb \X PlayRootIds), a, ix), fresh) :
                 gone \in {{}, {7}}, fb \in SUBSET FallbackIds, extra \in {{}, ExtraIds},
                 g \in VerifyLinks, fresh \in BOOLEAN,
                 a \in SUBSET ({9} \X Items),
                 ix \in {[i \in Items |-> row] : row \in RunItemRows}}
    /\ op = "init"
    /\ args = NoArgs
    /\ res = NewResult("")
    /\ pre = db
    /\ hist = <<>>
    /\ ctl = Idle

\* run_verification(auto_fix, report_only); in one run the oracle gives the
\* same answer for every orphan
Verify ==
    /\ op = "init"
    /\ \E auto_fix \in BOOLEAN, report_only \in BOOLEAN, answer \in PruneAnswers :
         LET out == run_verification(db, auto_fix, report_only, answer)
         IN  /\ db' = out.d
             /\ res' = [status |-> out.status, exit_code |-> ExitCode(out.status),
                        issues |-> out.issues, checks |-> out.checks, repairs |-> out.repairs]
             /\ args' = [auto_fix |-> auto_fix, report_only |-> report_only, answer |-> answer]
    /\ op' = "verify"
    /\ pre' = db
    /\ UNCHANGED <<hist, ctl>>

SpecVerify == InitVerify /\ [][Verify]_vars

(***************************************************************************)
(* Properties                                                              *)
(***************************************************************************)
\* pathways the result of phase 2 reports as left without a valid parent
Unresolved(r) == {e.id : e \in {x \in Range(r.errors) : x.kind = "all_create_cycles"}}

\* C1: after a live TreeEnforce phase every non-root pathway has exactly one
\* parent edge or is reported as unresolved in the phase result.
C1_ExactlyOneParentOrReported ==
    (op = "phase2" /\ ~args.dry_run) =>
        \A p \in PwIds(db) :
            ~IsRoot(db, p) =>
                Cardinality(ParentsIn(db.pp, p)) = 1 \/ p \in Unresolved(res)

\* C2: after a live TreeEnforce phase find_all_cycles on the persisted
\* parent graph returns the empty list.
C2_NoCyclesAfterTreeEnforce ==
    (op = "phase2" /\ ~args.dry_run) => find_all_cycles(db.pp) = <<>>

\* C3: when a step of a merge plan fails, the failure is returned and the
\* database holds exactly the rows it held before the plan was executed.
C3_AllOrNothing ==
    (op = "merge" /\ hist[1] # 0) => (~res.ok /\ db = pre)

\* C3 witness: a plan fails after some of its writes were already made.
C3_Witness ==
    /\ op = "merge"
    /\ hist[1] > 1
    /\ RunSteps(pre, args.plan, PlanSteps(args.plan), 1, args.fault).w # pre

\* C4: executing a plan again after it succeeded reports that the source
\* is gone and changes no pathway, parent edge or association.
C4_SecondRunNoOp ==
    op = "merge_again" =>
        /\ db = pre
        /\ ~res.ok
        /\ res.error \in {"source_not_found", "target_not_found"}
        /\ args.source \notin PwIds(db)

\* C4 witness: the plan that is executed again moved children, interactions
\* and parents the first time.
C4_Witness ==
    /\ op = "merge_again"
    /\ args.source # args.target
    /\ Len(args.plan.children_to_reparent) > 0
    /\ Len(args.plan.interactions_to_reassign) > 0
    /\ Len(args.plan.parent_links_to_transfer) > 0

\* the state after source s was merged into target t, against the state
\* before
MergedInto(s, t) ==
    /\ s \notin PwIds(db)
    /\ t \in PwIds(db)
    /\ \A e \in db.pp : e[1] # s /\ e[2] # s
    /\ \A e \in db.pi : e[1] # s
    /\ \A c \in ChildrenIn(pre.pp, s) : <<c, t>> \in db.pp
    /\ \A e \in pre.pi : e[1] = s => <<t, e[2]>> \in db.pi
    /\ \A p \in ParentsIn(pre.pp, s) \ {t} : <<t, p>> \in db.pp
    /\ <<t, t>> \notin db.pp

\* C5: after a successful merge the source is gone, nothing references it,
\* its children, interactions and parents (other than the target) are the
\* target's, and the target is not its own parent.
C5_MergePostcondition ==
    (op \in {"merge", "merge_pathways"} /\ res.ok) => MergedInto(args.source, args.target)

\* the same postcondition for a source merged into another pathway
C5_DistinctMergePostcondition ==
    (op \in {"merge", "merge_pathways"} /\ res.ok /\ args.source # args.target) =>
        MergedInto(args.source, args.target)

\* C6: the pruning phase never deletes a pathway that has a child edge or an
\* interaction at the moment it is deleted.
C6_PrunedHaveNoData ==
    op = "phase5" =>
        \A k \in DOMAIN hist : hist[k].children = 0 /\ hist[k].interactions = 0

\* C6 witness: a live pruning that rescued a pathway with data and deleted
\* another one.
C6_Witness ==
    /\ op = "phase5"
    /\ Len(hist) > 0
    /\ \E c \in Range(res.changes) : c.type = "reparent"

\* C7: every pathway the pruning phase deletes is, when it is deleted,
\* unreachable from every root in the current edge set.
C7_PrunedAreUnreachable ==
    op = "phase5" => \A k \in DOMAIN hist : ~hist[k].reachable

\* C8: get_smart_rescue_parent returns a pathway, and one whose name is in
\* STRICT_ROOTS, for every name and every answer of the oracle.
C8_RescueReturnsRoot ==
    op = "rescue" =>
        /\ res.found \in PwIds(db)
        /\ db.pw[res.found].name \in STRICT_ROOTS

\* C9: in a run no phase is executed after a phase that returned
\* success = false, no phase below start_phase is executed, and the executed
\* phases come in increasing order.
C9_TerminalOnFailure ==
    op = "run" =>
        /\ \A i, j \in DOMAIN hist : i < j => hist[i].success
        /\ \A i \in DOMAIN hist : hist[i].phase >= ctl.start_phase
        /\ \A i, j \in DOMAIN hist : i < j => hist[i].phase < hist[j].phase

\* C10: in a live run the checkpoint persisted after each executed phase
\* holds that phase's number, status and change count; a dry run writes no
\* checkpoint.
C10_CheckpointAfterEachPhase ==
    op = "run" =>
        \A i \in DOMAIN hist :
            hist[i].ck = IF ctl.dry_run THEN NoCk
                         ELSE [phase |-> hist[i].phase,
                               status |-> IF hist[i].success THEN "complete" ELSE "failed",
                               change_count |-> hist[i].change_count]

C12_FailedPhaseCommitsNothing ==
    (op = "run" /\ ctl.crashed) =>
        /\ ctl.pc = 7
        /\ db.pw = pre.pw /\ db.pp = pre.pp /\ db.pi = pre.pi
        /\ load_checkpoint(db, ctl.row) = load_checkpoint(pre, ctl.row)

\* C13: every root that was in the table before the run is in the table
\* after every phase of the run, whatever the oracle answered.
C13_RootsAlwaysExist ==
    op = "run" => \A i \in RootIds : i \in PwIds(db)

\* C14: no phase of the run commits a parent edge whose child is a root.
C14_RootsHaveNoParent ==
    op = "run" => \A e \in db.pp : ~IsRoot(db, e[1])

\* C15: run_auto_repairs changes the graph only for issues of severity LOW
\* or MEDIUM: no repair is made for an issue of severity HIGH or CRITICAL,
\* such as a missing root
C15_NoRepairOfHighOrCritical ==
    op = "verify" =>
        \A k \in DOMAIN res.repairs : res.repairs[k].severity \in {"low", "medium"}

\* C16: run_verification reports PASS or PASS_WITH_FIXES (exit code 0) only
\* if the last check run holds no HIGH or CRITICAL issue, whatever auto_fix
\* and report_only are
C16_PassMeansNoBlockingIssue ==
    (op = "verify" /\ res.exit_code = 0) =>
        \A k \in DOMAIN res.issues : res.issues[k].severity \notin {"high", "critical"}

\* C17: after a verification with auto-repair that ends with a passing
\* status, the stored hierarchy_level, ancestor_ids and is_leaf of every
\* pathway are those recomputed from the pathways and links
C17_DerivedValuesAreFresh ==
    (op = "verify" /\ args.auto_fix /\ ~args.report_only
        /\ res.status \in {"PASS", "PASS_WITH_FIXES"}) =>
        \A i \in PwIds(db) :
            /\ db.pw[i].level = recalculate_all_levels(db).pw[i].level
            /\ db.pw[i].ancestor_ids = get_actual_ancestors(db.pp, i, {}, <<>>)
            /\ db.pw[i].is_leaf = (ChildrenIn(db.pp, i) = {})

\* C18: after a live TreeEnforce phase and its level recomputation, the
\* stored levels satisfy level(child) = level(parent) + 1 for every parent
\* edge, and every canonical root has level 0
C18_LevelsFollowEdges ==
    (op = "phase2" /\ ~args.dry_run) =>
        /\ \A e \in db.pp : db.pw[e[1]].level = db.pw[e[2]].level + 1
        /\ \A i \in PwIds(db) : IsRoot(db, i) => db.pw[i].level = 0

\* C19: given the same persisted state and the same oracle answer, two
\* executions produce the same result: the root that rescue-root resolution
\* returned is the only one it can return for this table, name and answer
C19_RescueIsDeterministic ==
    op = "rescue" =>
        get_smart_rescue_parent(db, args.name, args.answer) = {res.found}

\* C20: after a live AssociationSync phase every interaction has at least
\* one association, every association references an existing pathway, and
\* an interaction that had none and whose stored suggestions name no
\* existing pathway is attached to the default pathway
C20_EveryInteractionAssociated ==
    (op = "run" /\ ~ctl.dry_run /\ hist # <<>> /\ hist[Len(hist)].phase = 4) =>
        /\ validate_no_orphan_interactions(db) = {}
        /\ \A e \in db.pi : e[1] \in PwIds(db)
        /\ \A i \in validate_no_orphan_interactions(pre) :
              (/\ PathwayByName(pre, pre.ix[i].step3_finalized_pathway) = 0
               /\ PathwayByName(pre, pre.ix[i].step2_proposal) = 0)
              => /\ PathwayByName(db, FallbackName) # 0
                 /\ <<PathwayByName(db, FallbackName), i>> \in db.pi

(***************************************************************************)
(* PathwayDAG (dag_models.py): dag = [nodes, parent_ids, child_ids], the   *)
(* two maps being the parent_ids and child_ids sets of the PathwayNode     *)
(* objects.  Sets of ids are walked in ascending order.                    *)
(***************************************************************************)
NewDag == [nodes |-> {}, parent_ids |-> <<>>, child_ids |-> <<>>]

\* add_node with a node as its constructor makes it (no parent, no child):
\* self.nodes[node.id] = node, whether or not the id is already there
add_node(dag, id) ==
    [nodes |-> dag.nodes \cup {id},
     parent_ids |-> [i \in dag.nodes \cup {id} |-> IF i = id THEN {} ELSE dag.parent_ids[i]],
     child_ids |-> [i \in dag.nodes \cup {id} |-> IF i = id THEN {} ELSE dag.child_ids[i]]]

\* the walk down from child_id over child_ids: TRUE when parent_id is found
\* below it
_would_create_cycle(dag, child_id, parent_id) ==
    LET RECURSIVE walk(_, _)
        walk(stack, visited) ==
            LET current == stack \ (visited \cup {parent_id})
                children == UNION {dag.child_ids[n] : n \in current}
            IN  IF current = {} THEN FALSE
                ELSE IF parent_id \in children THEN TRUE
                ELSE walk(children, visited \cup current)
    IN  walk({child_id}, {})

\* add_edge and remove_edge return [dag, ok]
add_edge(dag, child_id, parent_id) ==
    IF child_id \notin dag.nodes \/ parent_id \notin dag.nodes THEN [dag |-> dag, ok |-> FALSE]
    ELSE IF child_id = parent_id THEN [dag |-> dag, ok |-> FALSE]
    ELSE IF _would_create_cycle(dag, child_id, parent_id) THEN [dag |-> dag, ok |-> FALSE]
    ELSE [dag |-> [dag EXCEPT !.parent_ids[child_id] = @ \cup {parent_id},
                              !.child_ids[parent_id] = @ \cup {child_id}],
          ok |-> TRUE]

remove_edge(dag, child_id, parent_id) ==
    IF child_id \notin dag.nodes \/ parent_id \notin dag.nodes THEN [dag |-> dag, ok |-> FALSE]
    ELSE [dag |-> [dag EXCEPT !.parent_ids[child_id] = @ \ {parent_id},
                              !.child_ids[parent_id] = @ \ {child_id}],
          ok |-> TRUE]

\* Kahn's algorithm: [order, raised]; raised is the ValueError for a cycle
topological_sort(dag) ==
    LET in_degree0 == [i \in dag.nodes |-> Cardinality(dag.parent_ids[i])]
        RECURSIVE kahn(_, _, _)
        kahn(queue, result, in_degree) ==
            IF queue = <<>> THEN result
            ELSE LET node_id == Head(queue)
                     deg == [i \in dag.nodes |->
                                IF i \in dag.child_ids[node_id] THEN in_degree[i] - 1
                                ELSE in_degree[i]]
                     IsReady(c) == deg[c] = 0
                 IN  kahn(Tail(queue) \o SelectSeq(SortedSeq(dag.child_ids[node_id]), IsReady),
                          Append(result, node_id), deg)
        result0 == kahn(SortedSeq({i \in dag.nodes : in_degree0[i] = 0}), <<>>, in_degree0)
    IN  [order |-> result0, raised |-> Len(result0) # Cardinality(dag.nodes)]

\* [map, raised]: the ancestors of a node are its parents and what the map
\* already holds for them
compute_all_ancestors(dag) ==
    LET sorted == topological_sort(dag)
        RECURSIVE fold(_, _)
        fold(k, ancestors_map) ==
            IF k > Len(sorted.order) THEN ancestors_map
            ELSE LET node_id == sorted.order[k]
                     ancestors ==
                         dag.parent_ids[node_id] \cup
                         UNION {ancestors_map[p] :
                                   p \in dag.parent_ids[node_id] \cap DOMAIN ancestors_map}
                 IN  fold(k + 1, (node_id :> ancestors) @@ ancestors_map)
    IN  IF sorted.raised THEN [map |-> <<>>, raised |-> TRUE]
        ELSE [map |-> fold(1, <<>>), raised |-> FALSE]

\* the three-colour search down the child_ids, from every white node
detect_cycles(dag) ==
    LET RECURSIVE dfs_node(_, _, _), dfs_children(_, _, _, _)
        dfs_node(node_id, path, st) ==
            LET s1 == dfs_children(node_id, SortedSeq(dag.child_ids[node_id]), path,
                                   [st EXCEPT !.color[node_id] = "GRAY"])
            IN  [s1 EXCEPT !.color[node_id] = "BLACK"]
        dfs_children(node_id, children, path, st) ==
            IF children = <<>> THEN st
            ELSE LET child_id == Head(children)
                     s1 == IF st.color[child_id] = "GRAY"
                           THEN [st EXCEPT !.cycles = Append(@,
                                    IF child_id \in Range(path)
                                    THEN SubSeq(path, IndexOf(path, child_id), Len(path))
                                         \o <<child_id>>
                                    ELSE <<node_id, child_id>>)]
                           ELSE IF st.color[child_id] = "WHITE"
                           THEN dfs_node(child_id, Append(path, child_id), st)
                           ELSE st
                 IN  dfs_children(node_id, Tail(children), path, s1)
        RECURSIVE starts(_, _)
        starts(nodes, st) ==
            IF nodes = <<>> THEN st
            ELSE starts(Tail(nodes),
                        IF st.color[Head(nodes)] = "WHITE"
                        THEN dfs_node(Head(nodes), <<Head(nodes)>>, st) ELSE st)
    IN  starts(SortedSeq(dag.nodes), [color |-> [i \in dag.nodes |-> "WHITE"], cycles |-> <<>>]).cycles

\* the dag whose two maps hold exactly the edges of G
DagOf(ids, G) ==
    [nodes |-> ids,
     parent_ids |-> [i \in ids |-> ParentsIn(G, i)],
     child_ids |-> [i \in ids |-> ChildrenIn(G, i)]]

\* the calls made on one PathwayDAG
DagIds == 1..3

InitDag ==
    /\ db = NewDag
    /\ op = "init"
    /\ args = NoArgs
    /\ res = NewResult("")
    /\ pre = db
    /\ hist = <<>>
    /\ ctl = Idle

AddNode ==
    /\ \E id \in DagIds :
         /\ db' = add_node(db, id)
         /\ args' = [id |-> id]
    /\ op' = "add_node"
    /\ res' = [ok |-> TRUE]
    /\ pre' = db
    /\ UNCHANGED <<hist, ctl>>

AddEdge ==
    /\ \E child_id \in DagIds, parent_id \in DagIds :
         /\ db' = add_edge(db, child_id, parent_id).dag
         /\ res' = [ok |-> add_edge(db, child_id, parent_id).ok]
         /\ args' = [child_id |-> child_id, parent_id |-> parent_id]
    /\ op' = "add_edge"
    /\ pre' = db
    /\ UNCHANGED <<hist, ctl>>

RemoveEdge ==
    /\ \E child_id \in DagIds, parent_id \in DagIds :
         /\ db' = remove_edge(db, child_id, parent_id).dag
         /\ res' = [ok |-> remove_edge(db, child_id, parent_id).ok]
         /\ args' = [child_id |-> child_id, parent_id |-> parent_id]
    /\ op' = "remove_edge"
    /\ pre' = db
    /\ UNCHANGED <<hist, ctl>>

NextDag == AddNode \/ AddEdge \/ RemoveEdge

SpecDag == InitDag /\ [][NextDag]_vars

\* the dag of the stored pathways and links: one add_node per pathway, then
\* one add_edge per link in the order the query returns them (ascending by
\* child and parent, or the reverse); add_edge's answer is not looked at
build_dag_from_db(d, reversed) ==
    LET codes == SortedSeq({x[1] * 100 + x[2] : x \in d.pp})
        parent_links == [k \in DOMAIN codes |->
                            LET c == codes[IF reversed THEN Len(codes) + 1 - k ELSE k]
                            IN  <<c \div 100, c % 100>>]
        RECURSIVE nodes(_, _), edges(_, _)
        nodes(pathways, dag) ==
            IF pathways = <<>> THEN dag
            ELSE nodes(Tail(pathways), add_node(dag, Head(pathways)))
        edges(k, dag) ==
            IF k > Len(parent_links) THEN dag
            ELSE edges(k + 1, add_edge(dag, parent_links[k][1], parent_links[k][2]).dag)
    IN  edges(1, nodes(SortedSeq(PwIds(d)), NewDag))

(***************************************************************************)
(* The graph functions applied to one table: the upward and the downward   *)
(* cycle check for every pair of pathways, the levels, the ancestors and   *)
(* the cycle detectors.  The PathwayDAG is the one holding the table's     *)
(* pathways and edges.                                                     *)
(***************************************************************************)
Analyse ==
    /\ op = "init"
    /\ \E reversed \in BOOLEAN :
       LET G == build_parent_graph(db)
           dag == DagOf(PwIds(db), G)
           full == WithDerived(db, FALSE)
       IN  res' = [up |-> [x \in PwIds(db) \X PwIds(db) |-> would_create_cycle(x[1], x[2], G)],
                   down |-> [x \in PwIds(db) \X PwIds(db) |->
                                _would_create_cycle(dag, x[1], x[2])],
                   refused |-> [x \in PwIds(db) \X PwIds(db) |-> ~add_edge(dag, x[1], x[2]).ok],
                   levels |-> [i \in PwIds(db) |-> recalculate_all_levels(db).pw[i].level],
                   ancestor_ids |-> [i \in PwIds(db) |->
                                        recalculate_all_ancestor_ids(full).pw[i].ancestor_ids],
                   dag_ancestors |-> compute_all_ancestors(dag),
                   cycles |-> find_all_cycles(G),
                   no_cycles |-> HierarchyChecks(full)[1].passed,
                   dag_cycles |-> detect_cycles(dag),
                   loaded |-> build_dag_from_db(db, reversed),
                   gate_cycles |-> detect_cycles(build_dag_from_db(db, reversed))]
    /\ op' = "analyse"
    /\ pre' = db
    /\ UNCHANGED <<db, args, hist, ctl>>

SpecGraph == InitTree /\ [][Analyse]_vars

(***************************************************************************)
(* Reference definitions on an edge set G of <<child, parent>> pairs.      *)
(***************************************************************************)
RECURSIVE UpClosure(_, _)
\* the least set that holds S and the parents of its members
UpClosure(G, S) ==
    LET T == S \cup {e[2] : e \in {x \in G : x[1] \in S}}
    IN  IF T = S THEN S ELSE UpClosure(G, T)

\* the parents of n, their parents, and so on
ProperAncestors(G, n) == UpClosure(G, {e[2] : e \in {x \in G : x[1] = n}})

HasDirectedCycle(G) == \E e \in G : e[1] \in ProperAncestors(G, e[1])

\* C21: phase6_preflight returns success only if the graph has no cycle, no
\* pathway has level -1, every canonical root exists with level 0, no
\* association points at a missing pathway and every interaction has an
\* association
C21_PreflightGate ==
    (op = "preflight" /\ res.success) =>
        /\ ~HasDirectedCycle(db.pp)
        /\ \A i \in PwIds(db) : db.pw[i].level # -1
        /\ \A n \in STRICT_ROOTS :
              PathwayByName(db, n) # 0 /\ db.pw[PathwayByName(db, n)].level = 0
        /\ \A e \in db.pi : e[1] \in PwIds(db)
        /\ validate_no_orphan_interactions(db) = {}

\* C22: the child-to-parents and parent-to-children maps stay in sync after
\* any sequence of add_node, add_edge and remove_edge calls (p is among the
\* parents of c exactly when c is among the children of p), and a call that
\* fails leaves both maps unchanged
C22_MapsInSync ==
    /\ \A c \in db.nodes, p \in db.nodes : (p \in db.parent_ids[c]) = (c \in db.child_ids[p])
    /\ (op \in {"add_edge", "remove_edge"} /\ ~res.ok) => db = pre

\* the reference answer: child is proposed_parent or one of its ancestors
RefWouldCreateCycle(G, child, proposed_parent) ==
    child = proposed_parent \/ child \in ProperAncestors(G, proposed_parent)

RECURSIVE RefLevel(_, _)
RefLevel(d, n) ==
    IF IsRoot(d, n) THEN 0
    ELSE IF ~\E a \in ProperAncestors(d.pp, n) : IsRoot(d, a) THEN -1
    ELSE LET ls == {RefLevel(d, p) : p \in ParentsIn(d.pp, n)}
         IN  1 + CHOOSE m \in ls : \A l \in ls : l <= m

\* C27: level recomputation equals the reference level function: 0 for every
\* root, -1 for every pathway no root reaches, and 1 + the maximum of the
\* parents' levels for every other pathway, also with several parents
C27_LevelsAreReferenceLevels ==
    (op = "analyse" /\ ~HasDirectedCycle(db.pp)) =>
        \A i \in PwIds(db) : res.levels[i] = RefLevel(db, i)

\* C28: after ancestor recomputation the ancestors stored for every pathway
\* are the transitive closure of its parents, on every acyclic graph, also
\* when a pathway has more than one parent
C28_AncestorsAreClosure ==
    (op = "analyse" /\ ~HasDirectedCycle(db.pp)) =>
        /\ ~res.dag_ancestors.raised
        /\ \A i \in PwIds(db) :
              /\ res.dag_ancestors.map[i] = ProperAncestors(db.pp, i)
              /\ Range(res.ancestor_ids[i]) = ProperAncestors(db.pp, i)

\* the simple directed cycles of G, each written from its smallest id and
\* closed by it
RefSimpleCycles(G) ==
    LET N == {e[1] : e \in G} \cup {e[2] : e \in G}
        IsCycle(s) == /\ s[1] = Min(Range(s))
                      /\ \A k \in DOMAIN s : <<s[k], s[(k % Len(s)) + 1]>> \in G
    IN  {s \o <<s[1]>> : s \in {t \in UNION {Orders(S) : S \in SUBSET N \ {{}}} : IsCycle(t)}}

\* C29: find_all_cycles lists every simple directed cycle of the parent graph
\* exactly once, rotated to start and close at its smallest id
C29_AllSimpleCyclesOnce ==
    op = "analyse" =>
        /\ Range(res.cycles) = RefSimpleCycles(db.pp)
        /\ Len(res.cycles) = Cardinality(RefSimpleCycles(db.pp))

\* C30: find_all_cycles returns an empty list, check_no_cycles passes and
\* PathwayDAG.detect_cycles returns an empty list exactly when the parent
\* graph has no directed cycle
C30_DetectorsAgreeWithGraph ==
    op = "analyse" =>
        /\ (res.cycles = <<>>) = ~HasDirectedCycle(db.pp)
        /\ res.no_cycles = ~HasDirectedCycle(db.pp)
        /\ (res.gate_cycles = <<>>) = ~HasDirectedCycle(db.pp)

(***************************************************************************)
(* run_parallel: one task per item, a semaphore of max_concurrent permits  *)
(* around the call, the call itself in a thread of the shared executor.    *)
(* db holds the batch: the items, the semaphore, every task's position     *)
(* (waiting for the semaphore, submitted, running in a thread, finished in *)
(* the thread, done), what the call gave and how often it was invoked.     *)
(* hist is the order in which the tasks completed.                         *)
(***************************************************************************)
MaxBatch == 3
MaxConcurrent == 2
CallItems == {1, 2, 3}
\* ThreadPoolExecutor(max_workers=20)
MaxWorkers == 20

\* maybe_fail of the tests: raises for 3, doubles the others
call_fn(item) ==
    IF item = 3 THEN [raised |-> TRUE, value |-> "ValueError"]
    ELSE [raised |-> FALSE, value |-> item * 2]

TasksIn(b, position) == {i \in DOMAIN b.items : b.task[i] = position}

InitParallel ==
    /\ db \in {[items |-> items, max_concurrent |-> m, semaphore |-> m,
                task |-> [i \in DOMAIN items |-> "new"],
                outcome |-> [i \in DOMAIN items |-> [raised |-> FALSE, value |-> 0]],
                results |-> [i \in DOMAIN items |-> 0],
                invoked |-> [i \in DOMAIN items |-> 0],
                completed |-> 0] :
                  items \in UNION {[1..n -> CallItems] : n \in 0..MaxBatch},
                  m \in 1..MaxConcurrent}
    /\ op = "init"
    /\ args = NoArgs
    /\ res = <<>>
    /\ pre = db
    /\ hist = <<>>
    /\ ctl = Idle

\* 'if not items: return []', else one bounded_call task per item, gathered
RunParallel ==
    /\ op = "init"
    /\ IF db.items = <<>>
       THEN /\ op' = "returned"
            /\ res' = <<>>
            /\ db' = db
       ELSE /\ op' = "gather"
            /\ res' = res
            /\ db' = [db EXCEPT !.task = [i \in DOMAIN db.items |-> "waiting"]]
    /\ UNCHANGED <<args, pre, hist, ctl>>

\* 'async with semaphore' without the wait for a permit
Acquire_nosemaphore(idx) ==
    /\ op = "gather"
    /\ db.task[idx] = "waiting"
    /\ idx = Min(TasksIn(db, "waiting"))
    /\ db' = [db EXCEPT !.task[idx] = "submitted", !.semaphore = @ - 1]
    /\ UNCHANGED <<op, args, res, pre, hist, ctl>>

\* 'async with semaphore': the tasks start in the order of the items and
\* the semaphore wakes its waiters first come first served
Acquire(idx) ==
    /\ op = "gather"
    /\ db.task[idx] = "waiting"
    /\ idx = Min(TasksIn(db, "waiting"))
    /\ db.semaphore > 0
    /\ db' = [db EXCEPT !.task[idx] = "submitted", !.semaphore = @ - 1]
    /\ UNCHANGED <<op, args, res, pre, hist, ctl>>

\* a worker thread of the executor takes the submitted call and enters call_fn
Invoke(idx) ==
    /\ op = "gather"
    /\ db.task[idx] = "submitted"
    /\ Cardinality(TasksIn(db, "running")) < MaxWorkers
    /\ db' = [db EXCEPT !.task[idx] = "running", !.invoked[idx] = @ + 1]
    /\ UNCHANGED <<op, args, res, pre, hist, ctl>>

\* call_fn returns or raises in its thread
CallEnds(idx) ==
    /\ op = "gather"
    /\ db.task[idx] = "running"
    /\ db' = [db EXCEPT !.task[idx] = "finished", !.outcome[idx] = call_fn(db.items[idx])]
    /\ UNCHANGED <<op, args, res, pre, hist, ctl>>

\* bounded_call resumes after the await: 'return result' or, in the except
\* branch, 'return e'; leaving the with block gives the permit back
Resume(idx) ==
    /\ op = "gather"
    /\ db.task[idx] = "finished"
    /\ db' = [db EXCEPT !.task[idx] = "done",
                        !.results[idx] = db.outcome[idx].value,
                        !.completed = @ + 1,
                        !.semaphore = @ + 1]
    /\ hist' = Append(hist, idx)
    /\ UNCHANGED <<op, args, res, pre, ctl>>

\* a gather that lists the results as the tasks complete
Return_as_completed ==
    /\ op = "gather"
    /\ TasksIn(db, "done") = DOMAIN db.items
    /\ res' = [k \in DOMAIN hist |-> db.results[hist[k]]]
    /\ op' = "returned"
    /\ UNCHANGED <<db, args, pre, hist, ctl>>

\* 'results = await asyncio.gather(*tasks, return_exceptions=True)' and
\* 'return results': the results in the order of the tasks
Return ==
    /\ op = "gather"
    /\ TasksIn(db, "done") = DOMAIN db.items
    /\ res' = [i \in DOMAIN db.items |-> db.results[i]]
    /\ op' = "returned"
    /\ UNCHANGED <<db, args, pre, hist, ctl>>

NextParallel ==
    \/ RunParallel
    \/ \E idx \in 1..MaxBatch + 1 : idx \in DOMAIN db.items /\ Acquire(idx)
    \/ \E idx \in 1..MaxBatch + 1 : idx \in DOMAIN db.items /\ Invoke(idx)
    \/ \E idx \in 1..MaxBatch + 1 : idx \in DOMAIN db.items /\ CallEnds(idx)
    \/ \E idx \in 1..MaxBatch + 1 : idx \in DOMAIN db.items /\ Resume(idx)
    \/ Return

SpecParallel == InitParallel /\ [][NextParallel]_vars

\* C24: while run_parallel works, at most max_concurrent invocations of
\* call_fn are in progress at any moment, for every number of items
C24_AtMostMaxConcurrent ==
    (op = "gather") =>
        Cardinality(TasksIn(db, "running")) <= db.max_concurrent

\* C24 witness: the cap is reached while another item is still waiting
C24_Witness ==
    /\ op = "gather"
    /\ Cardinality(TasksIn(db, "running")) = db.max_concurrent
    /\ TasksIn(db, "waiting") # {}

\* C25: run_parallel returns one entry per item in the order of the items,
\* entry i being what call_fn(items[i]) returned or the exception it raised;
\* an exception of one item leaves the others alone and every item is
\* invoked exactly once
C25_ResultsInInputOrder ==
    /\ \A i \in DOMAIN db.items : db.invoked[i] <= 1
    /\ (op = "returned") =>
          /\ Len(res) = Len(db.items)
          /\ \A i \in DOMAIN db.items :
                /\ res[i] = call_fn(db.items[i]).value
                /\ db.invoked[i] = 1

\* C25 witness: a batch returned in which one call raised, another did not,
\* and a later item completed before an earlier one
C25_Witness ==
    /\ op = "returned"
    /\ \E i, j \in DOMAIN db.items : db.items[i] = 3 /\ db.items[j] # 3
    /\ \E k \in DOMAIN hist : k < Len(hist) /\ hist[k] > hist[k + 1]

(***************************************************************************)
(* Cached oracle calls.  db holds the PathwayCache (key -> value) and the  *)
(* number of calls made; hist holds, per kind of call and name, the answer *)
(* the oracle gave last ("" stands for no answer: the call failed or the   *)
(* reply named nothing).                                                   *)
(***************************************************************************)
MaxCalls == 4
LookupNames == <<"Mitophagy", " mitophagy", "Aggrephagy">>
OracleReplies == {"", "Autophagy", "Proteostasis"}

\* name.strip().lower()
_normalize_key(name) ==
    CASE name = "Mitophagy" -> "mitophagy"
      [] name = " mitophagy" -> "mitophagy"
      [] name = "Aggrephagy" -> "aggrephagy"
      [] name = "rescue_Mitophagy" -> "rescue_mitophagy"
      [] name = "rescue_ mitophagy" -> "rescue_ mitophagy"
      [] name = "rescue_Aggrephagy" -> "rescue_aggrephagy"

\* self._cache.get(key): "" stands for None
get_parent(cache, child_name) ==
    LET key == <<"parent", _normalize_key(child_name)>>
    IN  IF key \in DOMAIN cache THEN cache[key] ELSE ""

set_parent(cache, child_name, parent_name) ==
    LET key == <<"parent", _normalize_key(child_name)>>
    IN  [k \in DOMAIN cache \cup {key} |-> IF k = key THEN parent_name ELSE cache[k]]

\* [result, queried, cache]: reply is what the oracle would answer; the cache
\* is read and written for cache_type "parent" only ("siblings" is not part
\* of the model, any other type runs through to the oracle)
_call_gemini_json_cached(cache, cache_key, cache_type, reply) ==
    LET cached == IF cache_key # "" /\ cache_type = "parent"
                  THEN get_parent(cache, cache_key) ELSE ""
    IN  IF cached # ""
        THEN [result |-> cached, queried |-> FALSE, cache |-> cache]
        ELSE [result |-> reply, queried |-> TRUE,
              cache |-> IF cache_key # "" /\ reply # "" /\ cache_type = "parent"
                        THEN set_parent(cache, cache_key, reply) ELSE cache]

InitCache ==
    /\ db = [cache |-> <<>>, calls |-> 0]
    /\ op = "init"
    /\ args = NoArgs
    /\ res = <<>>
    /\ pre = db
    /\ hist = [x \in {"parent", "rescue"} \X Range(LookupNames) |-> ""]
    /\ ctl = Idle

\* what both calls do with the outcome of the cached call
CachedCall(kind, name, out, reply) ==
    /\ db.calls < MaxCalls
    /\ pre' = [db |-> db, obtained |-> hist[<<kind, name>>]]
    /\ db' = [cache |-> out.cache, calls |-> db.calls + 1]
    /\ op' = kind
    /\ args' = [name |-> name]
    /\ res' = [answer |-> out.result, queried |-> out.queried]
    /\ hist' = IF out.queried /\ reply # "" THEN [hist EXCEPT ![<<kind, name>>] = reply]
               ELSE hist
    /\ UNCHANGED ctl

\* _get_parent_for_pathway(pathway_name): cache_key=pathway_name,
\* cache_type="parent"
ParentLookup ==
    \E k \in DOMAIN LookupNames, reply \in OracleReplies :
        CachedCall("parent", LookupNames[k],
                   _call_gemini_json_cached(db.cache, LookupNames[k], "parent", reply), reply)

\* get_smart_rescue_parent(pathway_name, Pathway, use_cache=True):
\* cache_key=f"rescue_{pathway_name}", cache_type="rescue"
RootRescue ==
    \E k \in DOMAIN LookupNames, reply \in OracleReplies :
        CachedCall("rescue", LookupNames[k],
                   _call_gemini_json_cached(db.cache,
                       <<"rescue_Mitophagy", "rescue_ mitophagy", "rescue_Aggrephagy">>[k],
                       "rescue", reply), reply)

NextCache == ParentLookup \/ RootRescue

SpecCache == InitCache /\ [][NextCache]_vars

\* C26: with caching enabled, a call repeated with the same input (the same
\* orphan name for root resolution, the same child name for parent lookup)
\* gives the answer obtained before and does not query the oracle again
C26_RepeatedCallReusesAnswer ==
    (op \in {"parent", "rescue"} /\ pre.obtained # "") =>
        /\ ~res.queried
        /\ res.answer = pre.obtained

\* the graph as item k of a live phase 2 finds it: the links of the children
\* of the items from k on are still those at the start, the others are final
GraphBeforeItem(k) ==
    LET later == {args.items[j].child_id : j \in k..Len(args.items)}
    IN  {e \in pre.pp : e[1] \in later} \cup {e \in db.pp : e[1] \notin later}

\* keeping p as the only parent of c closes a cycle in G
ClosesCycle(G, c, p) == c \in UpClosure({e \in G : e[1] # c}, {p})

\* the parent the oracle's answer stands for: the first listed one when the
\* call failed or the answer names none of the candidates
ChosenParent(item) ==
    LET named == {p \in Range(item.parent_ids) : pre.pw[p].name = item.selected}
    IN  IF item.error \/ named = {} THEN item.parent_ids[1] ELSE CHOOSE p \in named : TRUE

apply_choice(d, choice, id_a, id_b) ==
    IF choice = "A" /\ <<id_a, id_b>> \in d.pp THEN [d EXCEPT !.pp = @ \ {<<id_a, id_b>>}]
    ELSE IF choice = "B" /\ <<id_b, id_a>> \in d.pp THEN [d EXCEPT !.pp = @ \ {<<id_b, id_a>>}]
    ELSE d

\* the body of the loop for the cycle [id_a, id_b, id_a]
FixPair(d, auto, choice, id_a, id_b) ==
    LET level_a == d.pw[id_a].level
        level_b == d.pw[id_b].level
    IN  IF auto
        THEN IF level_a > level_b THEN [d EXCEPT !.pp = @ \ {<<id_b, id_a>>}]
             ELSE IF level_b > level_a THEN [d EXCEPT !.pp = @ \ {<<id_a, id_b>>}]
             ELSE apply_choice(d, choice, id_a, id_b)
        ELSE IF choice = "SKIP" THEN d
        ELSE apply_choice(d, choice, id_a, id_b)

\* main(): the database after the run
fix_cycle(d0, auto, choice) ==
    LET cycles == find_all_cycles(build_parent_graph(d0))
        RECURSIVE loop(_, _, _)
        loop(k, d, processed_pairs) ==
            IF k > Len(cycles) THEN d
            ELSE LET cycle == cycles[k]
                     pair == {cycle[1], cycle[2]}
                 IN  IF Len(cycle) # 3 \/ pair \in processed_pairs
                     THEN loop(k + 1, d, processed_pairs)
                     ELSE loop(k + 1, FixPair(d, auto, choice, cycle[1], cycle[2]),
                               processed_pairs \cup {pair})
    IN  loop(1, d0, {})

FixCycle ==
    /\ op = "init"
    /\ \E auto \in BOOLEAN, choice \in {"A", "B", "SKIP", ""} :
         /\ db' = fix_cycle(db, auto, choice)
         /\ args' = [auto |-> auto, choice |-> choice]
    /\ op' = "fix_cycle"
    /\ pre' = db
    /\ UNCHANGED <<res, hist, ctl>>

SpecFix == InitTree /\ [][FixCycle]_vars

\* C32: for two pathways that are each other's parent, the automatic fix
\* leaves exactly one of the two links, whatever the two stored levels: the
\* link whose parent is the pathway with the greater level is the one deleted
C32_OneEdgeOfMutualCycleRemains ==
    (op = "fix_cycle" /\ args.auto) =>
        \A a, b \in PwIds(pre) :
            ({<<a, b>>, <<b, a>>} \subseteq pre.pp /\ a < b) =>
                /\ Cardinality({<<a, b>>, <<b, a>>} \cap db.pp) = 1
                /\ pre.pw[a].level > pre.pw[b].level => <<b, a>> \notin db.pp
                /\ pre.pw[b].level > pre.pw[a].level => <<a, b>> \notin db.pp

(***************************************************************************)
(* The two ways duplicates are merged: phase 1 of the reorganisation, on   *)
(* the oracle's word, and 07_merge_duplicate_pathways.py, by its own rule. *)
(* db.ont is the set of pathways whose ontology_id is set.                 *)
(***************************************************************************)
\* select_canonical_pathway: the loop over the group with the score tuple
\* (has_ontology, interaction_count, -level, -pathway_id)
select_canonical_pathway(d, pathways) ==
    LET score(pathway_id) ==
            <<IF pathway_id \in d.ont THEN 1 ELSE 0,
              Cardinality({e \in d.pi : e[1] = pathway_id}),
              -d.pw[pathway_id].level,
              -pathway_id>>
        greater(x, y) ==
            \E k \in 1..4 : x[k] > y[k] /\ \A j \in 1..(k - 1) : x[j] = y[j]
        RECURSIVE loop(_, _)
        loop(k, best_id) ==
            IF k > Len(pathways) THEN best_id
            ELSE IF pathways[k] \in PwIds(d)
                    /\ (best_id = 0 \/ greater(score(pathways[k]), score(best_id)))
            THEN loop(k + 1, pathways[k])
            ELSE loop(k + 1, best_id)
    IN  loop(1, 0)

\* find_duplicate_groups: the pathways whose normalised name is "mitophagy",
\* when there is more than one
find_duplicate_groups(d) ==
    LET group == {i \in PwIds(d) : d.pw[i].name \in {"Mitophagy", "Mitophagy Pathway"}}
    IN  IF Cardinality(group) > 1 THEN {SortedSeq(group)} ELSE {}

InitDedup ==
    /\ db \in {[pw |-> d.pw, pp |-> d.pp, pi |-> d.pi, ix |-> d.ix, ont |-> o] :
                 d \in {MakeDb(RootIds \cup {9} \cup {10} \cup DupIds,
                               {<<9, 1>>, <<10, p>>, <<13, q>>}, a, InitItems) :
                          p \in {1, 9}, q \in {1, 9}, a \in SUBSET (({10} \cup DupIds) \X Items)},
                 o \in SUBSET ({10} \cup DupIds)}
    /\ op = "init"
    /\ args = NoArgs
    /\ res = NewResult("")
    /\ pre = db
    /\ hist = <<>>
    /\ ctl = Idle

\* a live phase 1; the oracle merges a candidate pair, or names one
\* pathway on both sides of a merge, or merges nothing
Dedup ==
    /\ op = "init"
    /\ \E merges \in {<<>>} \cup
                     UNION {{<<[canonical_name |-> c, name_a |-> pr[1], name_b |-> pr[2]]>> :
                                c \in {pr[1], pr[2]}} :
                            pr \in find_duplicate_candidates(db)
                                   \cup {<<pr[1], pr[1]>> : pr \in find_duplicate_candidates(db)}} :
         LET out == phase1_deduplication(db, FALSE, merges)
         IN  /\ db' = out.d
             /\ res' = out.r
             /\ args' = [dry_run |-> FALSE, merges |-> merges]
    /\ op' = "dedup"
    /\ pre' = db
    /\ UNCHANGED <<hist, ctl>>

\* main() of the merge script without --dry-run
MergeDuplicates ==
    /\ op = "init"
    /\ \E pathways \in find_duplicate_groups(db) :
         LET canonical_id == select_canonical_pathway(db, pathways)
             dup_id == CHOOSE x \in Range(pathways) : x # canonical_id
             out == merge_pathways(db, canonical_id, dup_id)
         IN  /\ db' = IF out.ok /\ dup_id \in db.ont
                      THEN [out.d EXCEPT !.ont = (@ \ {dup_id}) \cup {canonical_id}]
                      ELSE [out.d EXCEPT !.ont = @ \ (IF out.ok THEN {dup_id} ELSE {})]
             /\ res' = [NewResult("merge_duplicates") EXCEPT !.success = out.ok]
             /\ args' = [dry_run |-> FALSE, merges |-> <<>>]
    /\ op' = "merge_duplicates"
    /\ pre' = db
    /\ UNCHANGED <<hist, ctl>>

NextDedup == Dedup \/ MergeDuplicates

SpecDedup == InitDedup /\ [][NextDedup]_vars

\* k is preferred to x by the rule: ontology reference, then more
\* associations, then lower level, then lower id
RefPreferred(d, k, x) ==
    LET ont(i) == IF i \in d.ont THEN 1 ELSE 0
        cnt(i) == Cardinality({e \in d.pi : e[1] = i})
    IN  \/ ont(k) > ont(x)
        \/ ont(k) = ont(x) /\ cnt(k) > cnt(x)
        \/ ont(k) = ont(x) /\ cnt(k) = cnt(x) /\ d.pw[k].level < d.pw[x].level
        \/ ont(k) = ont(x) /\ cnt(k) = cnt(x) /\ d.pw[k].level = d.pw[x].level /\ k < x

\* C33: when two duplicate pathways are merged, the one kept is the one the
\* rule prefers (ontology reference, then more associations, then lower
\* level, then lower id) and the other one is the one deleted
C33_CanonicalByRule ==
    (op \in {"dedup", "merge_duplicates"}) =>
        \A k, x \in PwIds(pre) :
            (/\ SimilarNames(pre.pw[k].name, pre.pw[x].name)
             /\ PwIds(db) # PwIds(pre))
            => (k \in PwIds(db) /\ x \notin PwIds(db)) = RefPreferred(pre, k, x)

(***************************************************************************)
(* The steps that insert parent links while the hierarchy is built:        *)
(* build_hierarchy (the climbing loop and the chain verification that      *)
(* follows it), discover_siblings and ensure_hierarchy_chain.              *)
(***************************************************************************)
\* the safety limit of the climbing loop: 'if level > 10: break'
MaxLevel == 10

\* the name an oracle that invents a parent gives at a level
FreshName(level) ==
    <<"Tier 1", "Tier 2", "Tier 3", "Tier 4", "Tier 5", "Tier 6", "Tier 7", "Tier 8",
      "Tier 9", "Tier 10", "Tier 11", "Tier 12">>[IF level <= MaxLevel + 2 THEN level
                                                   ELSE MaxLevel + 2]

\* db.session.add(Pathway(name=..., hierarchy_level=...)): the next id
AddPathway(d, name, level) ==
    LET new == -Min({-x : x \in PwIds(d)}) + 1
    IN  [d EXCEPT !.pw = [x \in PwIds(d) \cup {new} |->
                             IF x = new THEN [name |-> name, level |-> level] ELSE d.pw[x]]]

\* [reached, steps]: the walk up the first parent link of each pathway
verify_chain_reaches_root(d, pathway_id) ==
    LET RECURSIVE walk(_, _, _)
        walk(current, visited, steps) ==
            IF current \in visited THEN [reached |-> FALSE, steps |-> steps]
            ELSE IF IsRoot(d, current) THEN [reached |-> TRUE, steps |-> steps + 1]
            ELSE IF ParentsIn(d.pp, current) = {} THEN [reached |-> FALSE, steps |-> steps + 1]
            ELSE walk(Min(ParentsIn(d.pp, current)), visited \cup {current}, steps + 1)
    IN  walk(pathway_id, {}, 0)

\* get_pathways_needing_parents: the names, in the order of the terms
get_pathways_needing_parents(d) ==
    LET ids == SortedSeq({x \in PwIds(d) : ~IsRoot(d, x) /\ ParentsIn(d.pp, x) = {}})
    IN  [k \in DOMAIN ids |-> d.pw[ids[k]].name]

\* the body of 'for result in results' of the climbing loop;
\* st = [d, all_processed, next_level_candidates]
ClimbResult(st, child_name, parent_name) ==
    LET child_pw == PathwayByName(st.d, child_name)
        found == PathwayByName(st.d, parent_name)
        d1 == IF found # 0 THEN st.d
              ELSE AddPathway(st.d, parent_name,
                              IF parent_name \in STRICT_ROOTS THEN 0
                              ELSE IF st.d.pw[child_pw].level - 1 > 0
                                   THEN st.d.pw[child_pw].level - 1 ELSE 0)
        parent_pw == PathwayByName(d1, parent_name)
        d2 == [d1 EXCEPT !.pp = @ \cup {<<child_pw, parent_pw>>}]
    IN  IF parent_name = "" \/ parent_name = child_name THEN st
        ELSE IF child_pw = 0 THEN st
        ELSE IF ParentsIn(st.d.pp, child_pw) # {} THEN st
        ELSE IF would_create_cycle(child_pw, parent_pw, build_parent_graph(d1))
        THEN [st EXCEPT !.d = d1]
        ELSE [d |-> d2,
              all_processed |-> st.all_processed \cup {child_name},
              next_level_candidates |->
                  IF /\ parent_name \notin STRICT_ROOTS
                     /\ parent_name \notin st.all_processed \cup {child_name}
                     /\ ParentsIn(d2.pp, parent_pw) = {}
                  THEN st.next_level_candidates \cup {parent_name}
                  ELSE st.next_level_candidates]

\* one round of 'while pending': every pending name with the oracle's answer
ClimbRound(d, all_processed, pending, answers) ==
    LET RECURSIVE loop(_, _)
        loop(k, st) ==
            IF k > Len(pending) THEN st
            ELSE loop(k + 1, ClimbResult(st, pending[k], answers[k]))
    IN  loop(1, [d |-> d, all_processed |-> all_processed, next_level_candidates |-> {}])

\* step 3 of build_hierarchy: every pathway whose chain does not reach a root
\* gets the rescue parent, on its first link or on a new one; [d, raised]:
\* a link the table's constraints reject raises at the flush
VerifyChains(d0, answer) ==
    LET RECURSIVE loop(_, _)
        loop(ids, d) ==
            IF ids = <<>> THEN [d |-> d, raised |-> FALSE]
            ELSE LET pw == Head(ids)
                     smart_parent == CHOOSE x \in get_smart_rescue_parent(d, d.pw[pw].name, answer) : TRUE
                     ps == ParentsIn(d.pp, pw)
                     d1 == IF ps # {}
                           THEN [d EXCEPT !.pp = (@ \ {<<pw, Min(ps)>>}) \cup {<<pw, smart_parent>>}]
                           ELSE [d EXCEPT !.pp = @ \cup {<<pw, smart_parent>>}]
                 IN  IF IsRoot(d, pw) \/ verify_chain_reaches_root(d, pw).reached
                     THEN loop(Tail(ids), d)
                     ELSE IF smart_parent <= 0 THEN loop(Tail(ids), d)
                     ELSE IF smart_parent = pw \/ (ps # {} /\ smart_parent \in ps \ {Min(ps)})
                     THEN [d |-> d0, raised |-> TRUE]
                     ELSE loop(Tail(ids), d1)
    IN  loop(SortedSeq(PwIds(d0)), d0)

\* the siblings the oracle names become children of the parent; the names
\* already under the parent when its turn comes are skipped
SiblingsOfParent(d0, parent_id, siblings) ==
    LET existing_child_names == {d0.pw[c].name : c \in ChildrenIn(d0.pp, parent_id)}
        RECURSIVE loop(_, _)
        loop(k, d) ==
            IF k > Len(siblings) THEN d
            ELSE LET name == siblings[k]
                     d1 == IF PathwayByName(d, name) # 0 THEN d
                           ELSE AddPathway(d, name, d.pw[parent_id].level + 1)
                     existing_pw == PathwayByName(d1, name)
                 IN  IF name = "" \/ name \in existing_child_names THEN loop(k + 1, d)
                     ELSE IF <<existing_pw, parent_id>> \in d1.pp THEN loop(k + 1, d1)
                     ELSE IF would_create_cycle(existing_pw, parent_id, build_parent_graph(d1))
                     THEN loop(k + 1, d1)
                     ELSE loop(k + 1, [d1 EXCEPT !.pp = @ \cup {<<existing_pw, parent_id>>}])
    IN  loop(1, d0)

\* discover_siblings: every pathway that has a child, in turn
discover_siblings(d0, siblings) ==
    LET parent_ids == SortedSeq({e[2] : e \in d0.pp})
        RECURSIVE loop(_, _)
        loop(k, d) ==
            IF k > Len(parent_ids) THEN d
            ELSE loop(k + 1, SiblingsOfParent(d, parent_ids[k], siblings))
    IN  loop(1, d0)

\* [d, raised]: every name of the chain exists afterwards with its index as
\* level and the name before it as a parent; a link from a pathway to itself
\* is rejected by the table when the session is flushed
ensure_hierarchy_chain(d0, chain0) ==
    LET chain == IF chain0[1] \notin STRICT_ROOTS
                 THEN <<"Cellular Signaling">> \o chain0 ELSE chain0
        RECURSIVE loop(_, _, _)
        loop(k, d, parent_id) ==
            IF k > Len(chain) THEN [d |-> d, raised |-> FALSE]
            ELSE LET found == PathwayByName(d, chain[k])
                     d1 == IF found # 0 THEN [d EXCEPT !.pw[found].level = k - 1]
                           ELSE AddPathway(d, chain[k], k - 1)
                     pathway == PathwayByName(d1, chain[k])
                 IN  IF k > 1 /\ parent_id = pathway THEN [d |-> d0, raised |-> TRUE]
                     ELSE loop(k + 1,
                               IF k > 1 THEN [d1 EXCEPT !.pp = @ \cup {<<pathway, parent_id>>}]
                               ELSE d1,
                               pathway)
    IN  loop(1, d0, 0)

\* the names the oracle uses in its answers
ReplyNames(level) == {"Proteostasis", "Histone Deacetylation", "Mitophagy", FreshName(level)}

InitBuild ==
    /\ db \in {MakeDb(RootIds \cup NodeIds, g, {}, <<>>) : g \in InitLinks(NodeIds, PlayRootIds)}
              \cup {MakeDb(RootIds \cup FallbackIds \cup {9, 10}, g, {}, <<>>) :
                       g \in SUBSET {<<8, 10>>, <<10, 9>>, <<9, 1>>}}
    /\ op = "init"
    /\ args = NoArgs
    /\ res = NewResult("")
    /\ pre = db
    /\ hist = <<>>
    /\ ctl = Idle

\* build_hierarchy starts: the pathways that need a parent are pending
StartBuild ==
    /\ op = "init"
    /\ LET pending == get_pathways_needing_parents(db)
       IN  ctl' = [pc |-> IF pending = <<>> THEN "verify" ELSE "climb", pending |-> pending,
                   all_processed |-> {}, level |-> 1]
    /\ op' = "build"
    /\ pre' = db
    /\ UNCHANGED <<db, args, res, hist>>

\* faulty variant of Climb: the safety limit on the level is missing
Climb_nolimit ==
    /\ op = "build" /\ ctl.pc = "climb"
    /\ \E answers \in [DOMAIN ctl.pending -> ReplyNames(ctl.level) \cup {""}] :
         LET out == ClimbRound(db, ctl.all_processed, ctl.pending, answers)
             ids == SortedSeq({PathwayByName(out.d, n) : n \in out.next_level_candidates})
             next == [k \in DOMAIN ids |-> out.d.pw[ids[k]].name]
         IN  /\ db' = out.d
             /\ ctl' = [pc |-> IF next = <<>> THEN "verify" ELSE "climb",
                        pending |-> next, all_processed |-> out.all_processed,
                        level |-> ctl.level + 1]
    /\ UNCHANGED <<op, args, res, pre, hist>>

\* one round of the climbing loop, with 'level += 1' and the safety limit
Climb ==
    /\ op = "build" /\ ctl.pc = "climb"
    /\ \E answers \in [DOMAIN ctl.pending -> ReplyNames(ctl.level) \cup {""}] :
         LET out == ClimbRound(db, ctl.all_processed, ctl.pending, answers)
             ids == SortedSeq({PathwayByName(out.d, n) : n \in out.next_level_candidates})
             next == [k \in DOMAIN ids |-> out.d.pw[ids[k]].name]
         IN  /\ db' = out.d
             /\ ctl' = [pc |-> IF next = <<>> \/ ctl.level + 1 > MaxLevel
                               THEN "verify" ELSE "climb",
                        pending |-> next, all_processed |-> out.all_processed,
                        level |-> ctl.level + 1]
    /\ UNCHANGED <<op, args, res, pre, hist>>

\* the chain verification that ends build_hierarchy; the oracle of the
\* rescue fails or names a root
Verified ==
    /\ op = "build" /\ ctl.pc = "verify"
    /\ \E answer \in {a \in OracleAnswers : ~a.malformed /\ Cardinality(a.matches) <= 1
                                            /\ a.matches \subseteq {"Proteostasis"}} :
         LET out == VerifyChains(db, answer)
         IN  /\ db' = out.d
             /\ res' = [NewResult("build_hierarchy") EXCEPT !.success = ~out.raised]
    /\ ctl' = [ctl EXCEPT !.pc = "done"]
    /\ op' = "built"
    /\ UNCHANGED <<args, pre, hist>>

DiscoverSiblings ==
    /\ op = "init"
    /\ \E siblings \in UNION {[1..n -> ReplyNames(1)] : n \in 0..2} :
         /\ db' = discover_siblings(db, siblings)
         /\ args' = [dry_run |-> FALSE, names |-> siblings]
    /\ op' = "siblings"
    /\ pre' = db
    /\ UNCHANGED <<res, hist, ctl>>

EnsureChain ==
    /\ op = "init"
    /\ \E chain \in UNION {[1..n -> ReplyNames(1)] : n \in 2..3} :
         LET out == ensure_hierarchy_chain(db, chain)
         IN  /\ db' = out.d
             /\ res' = [NewResult("ensure_hierarchy_chain") EXCEPT !.success = ~out.raised]
             /\ args' = [dry_run |-> FALSE, names |-> chain]
    /\ op' = "chain"
    /\ pre' = db
    /\ UNCHANGED <<hist, ctl>>

NextBuild == StartBuild \/ Climb \/ Verified \/ DiscoverSiblings \/ EnsureChain

SpecBuild == InitBuild /\ [][NextBuild]_vars

C35_RepairPhasesKeepAcyclic ==
    (op = "run" /\ ctl.pc \in {2, 4, 6} /\ ctl.pc > ctl.start_phase
        /\ ~HasDirectedCycle(pre.pp)) => ~HasDirectedCycle(db.pp)

\* C36: after a merge that deduplication applies, the pathway named as
\* canonical exists with the children and the associations it had; a merge
\* whose two names denote the same pathway changes nothing
C36_CanonicalSurvivesMerge ==
    (op = "dedup" /\ args.merges # <<>>) =>
        LET m == args.merges[1]
            to_drop == IF m.name_a # m.canonical_name THEN m.name_a ELSE m.name_b
            keep_pw == PathwayByName(pre, m.canonical_name)
            drop_pw == PathwayByName(pre, to_drop)
        IN  IF keep_pw = drop_pw
            THEN db = pre
            ELSE /\ keep_pw \in PwIds(db)
                 /\ db.pw[keep_pw].name = m.canonical_name
                 /\ ChildrenIn(pre.pp, keep_pw) \ {drop_pw} \subseteq ChildrenIn(db.pp, keep_pw)
                 /\ {e \in pre.pi : e[1] = keep_pw} \subseteq db.pi

\* C37: a passing status (PASS or PASS_WITH_FIXES) is returned only if no
\* check of the last check run failed; then no interaction is without an
\* association and no pathway has the level -1
C37_PassMeansAllChecksPassed ==
    (op = "verify" /\ res.status \in {"PASS", "PASS_WITH_FIXES"}) =>
        /\ \A k \in DOMAIN res.checks : res.checks[k].passed
        /\ \A i \in DOMAIN db.ix : \E e \in db.pi : e[2] = i
        /\ \A i \in PwIds(db) : db.pw[i].level # -1

\* run_verification is called, and run_verification(auto_fix=True) is
\* started again right after a run with auto-repair has finished
VerifyRun ==
    /\ op \in {"init", "verify"}
    /\ op = "verify" => (args.auto_fix /\ ~args.report_only)
    /\ \E auto_fix \in BOOLEAN, report_only \in BOOLEAN, answer \in PruneAnswers :
         /\ op = "verify" => (auto_fix /\ ~report_only)
         /\ LET out == run_verification(db, auto_fix, report_only, answer)
            IN  /\ db' = out.d
                /\ res' = [status |-> out.status, exit_code |-> ExitCode(out.status),
                           issues |-> out.issues, checks |-> out.checks,
                           repairs |-> out.repairs]
                /\ args' = [auto_fix |-> auto_fix, report_only |-> report_only,
                            answer |-> answer]
    /\ op' = IF op = "init" THEN "verify" ELSE "verify_again"
    /\ pre' = db
    /\ UNCHANGED <<hist, ctl>>

\* the tables of InitVerify that hold all seven roots and at most ten
\* pathways without a link
InitVerifyTwice ==
    /\ InitVerify
    /\ RootIds \subseteq PwIds(db)
    /\ PwIds(db) \cap ExtraIds = {}

SpecVerifyTwice == InitVerifyTwice /\ [][VerifyRun]_vars

\* C38: one pass of auto-repair reaches a fixed point: a second verification
\* with auto-repair, started right after the first, applies no repair and
\* changes no stored value
C38_SecondRepairRunChangesNothing ==
    op = "verify_again" =>
        /\ db = pre
        /\ \A k \in DOMAIN res.repairs : ~res.repairs[k].success

(***************************************************************************)
(* The process-wide PathwayCache under worker threads.  db holds the       *)
(* module global _pathway_cache (0 stands for None), the PathwayCache      *)
(* objects made so far, the cache file and every set_parent made; ctl      *)
(* holds, per worker thread, its position in _call_gemini_json_cached.     *)
(***************************************************************************)
MaxThreads == 2
Threads == 1..MaxThreads
WorkerName(t) == <<"Mitophagy", "Aggrephagy", " mitophagy">>[t]

\* PathwayCache(): a new object, loaded from the cache file
PathwayCache(file) == [cache |-> file, dirty |-> FALSE]

\* save_to_disk: the file gets the entries of the object if it is dirty
save_to_disk(d, k) ==
    IF ~d.inst[k].dirty THEN d
    ELSE [d EXCEPT !.file = d.inst[k].cache, !.inst[k].dirty = FALSE]

\* save_cache: the object the global names is saved, if there is one
save_cache(d) == IF d.global # 0 THEN save_to_disk(d, d.global) ELSE d

InitShared ==
    /\ db \in {[global |-> 0, inst |-> <<>>, file |-> f, written |-> {}] :
                 f \in {<<>>, set_parent(<<>>, "Mitophagy", "Autophagy")}}
    /\ op = "init"
    /\ args = NoArgs
    /\ res = [t \in Threads |-> ""]
    /\ pre = db
    /\ hist = <<>>
    /\ ctl = [t \in Threads |-> [pc |-> "get", phase |-> 1, cache |-> 0, reply |-> ""]]

\* get_pathway_cache: 'if _pathway_cache is None'
GetCacheCheck(t) ==
    /\ ctl[t].pc = "get"
    /\ ctl' = [ctl EXCEPT ![t].pc = IF db.global = 0 THEN "create" ELSE "return"]
    /\ op' = "get_pathway_cache"
    /\ UNCHANGED <<db, args, res, pre, hist>>

\* get_pathway_cache: '_pathway_cache = PathwayCache()'
GetCacheCreate(t) ==
    /\ ctl[t].pc = "create"
    /\ db' = [db EXCEPT !.inst = Append(@, PathwayCache(db.file)), !.global = Len(db.inst) + 1]
    /\ ctl' = [ctl EXCEPT ![t].pc = "return"]
    /\ op' = "get_pathway_cache"
    /\ UNCHANGED <<args, res, pre, hist>>

\* get_pathway_cache: 'return _pathway_cache'
GetCacheReturn(t) ==
    /\ ctl[t].pc = "return"
    /\ ctl' = [ctl EXCEPT ![t].cache = db.global,
                          ![t].pc = IF ctl[t].phase = 1 THEN "lookup" ELSE "store"]
    /\ op' = "get_pathway_cache"
    /\ UNCHANGED <<db, args, res, pre, hist>>

\* _call_gemini_json_cached: cache.get_parent(cache_key) and the return of
\* a cached answer
CacheLookup(t) ==
    /\ ctl[t].pc = "lookup"
    /\ LET cached == get_parent(db.inst[ctl[t].cache].cache, WorkerName(t))
       IN  /\ ctl' = [ctl EXCEPT ![t].pc = IF cached # "" THEN "done" ELSE "llm"]
           /\ res' = [res EXCEPT ![t] = cached]
    /\ op' = "get_parent"
    /\ UNCHANGED <<db, args, pre, hist>>

\* _call_gemini_json_cached: the oracle is called and names a parent
CallLLM(t) ==
    /\ ctl[t].pc = "llm"
    /\ \E reply \in OracleReplies \ {""} :
         /\ ctl' = [ctl EXCEPT ![t].pc = "get", ![t].phase = 2, ![t].reply = reply]
         /\ res' = [res EXCEPT ![t] = reply]
    /\ op' = "_call_gemini_json"
    /\ UNCHANGED <<db, args, pre, hist>>

\* _call_gemini_json_cached: cache.set_parent(cache_key, result["parent"]),
\* under the lock of the object
CacheStore(t) ==
    /\ ctl[t].pc = "store"
    /\ db' = [db EXCEPT !.inst[ctl[t].cache] =
                            [cache |-> set_parent(@.cache, WorkerName(t), ctl[t].reply),
                             dirty |-> TRUE],
                        !.written = @ \cup {WorkerName(t)}]
    /\ ctl' = [ctl EXCEPT ![t].pc = "done"]
    /\ op' = "set_parent"
    /\ UNCHANGED <<args, res, pre, hist>>

\* the batch is over and the caller saves the cache
SaveCache ==
    /\ op # "save_cache"
    /\ \A t \in Threads : ctl[t].pc = "done"
    /\ db' = save_cache(db)
    /\ op' = "save_cache"
    /\ pre' = db
    /\ UNCHANGED <<args, res, hist, ctl>>

NextShared ==
    \/ \E t \in Threads : GetCacheCheck(t)
    \/ \E t \in Threads : GetCacheCreate(t)
    \/ \E t \in Threads : GetCacheReturn(t)
    \/ \E t \in Threads : CacheLookup(t)
    \/ \E t \in Threads : CallLLM(t)
    \/ \E t \in Threads : CacheStore(t)
    \/ SaveCache

SpecShared == InitShared /\ [][NextShared]_vars

\* C39: the worker threads all obtain the same PathwayCache object; every
\* set_parent made by a thread is visible to a later get through the global
\* object and is in the file after the next save
C39_OneCacheNoLostAnswer ==
    /\ \A t, u \in Threads : (ctl[t].cache # 0 /\ ctl[u].cache # 0) => ctl[t].cache = ctl[u].cache
    /\ \A name \in db.written : get_parent(db.inst[db.global].cache, name) # ""
    /\ op = "save_cache" => \A name \in db.written : get_parent(db.file, name) # ""

\* the loop of get_all_ancestors with its deque: [ancestors, steps], steps
\* counts the passes of 'while queue'
AncestorQueue(pathway_id, G) ==
    LET RECURSIVE loop(_, _, _)
        loop(queue, ancestors, steps) ==
            IF queue = <<>> THEN [ancestors |-> ancestors, steps |-> steps]
            ELSE IF Head(queue) \in ancestors THEN loop(Tail(queue), ancestors, steps + 1)
            ELSE loop(Tail(queue) \o SortedSeq(ParentsIn(G, Head(queue))),
                      ancestors \cup {Head(queue)}, steps + 1)
    IN  loop(SortedSeq(ParentsIn(G, pathway_id)), {}, 0)

NextClimb == StartBuild \/ Climb \/ Verified

\* build_hierarchy runs in one thread: a call starts, and while the build
\* runs its next step (a round of the loop, or the verification after the
\* loop) is made.  The second condition is WF_vars(Climb \/ Verified) with
\* ENABLED written as the state predicate op = "build": in such a state, and
\* in no other, one of the two steps can be made
SpecBuildLive ==
    /\ InitBuild /\ [][NextClimb]_vars
    /\ WF_vars(StartBuild)
    /\ ([]<>(op # "build") \/ []<><<Climb \/ Verified>>_vars)

\* the traversals end on the stored graph within a number of steps that its
\* size bounds
TraversalsBounded ==
    \A i \in PwIds(db) :
        /\ verify_chain_reaches_root(db, i).steps <= Cardinality(PwIds(db))
        /\ Len(get_actual_ancestors(db.pp, i, {}, <<>>)) <= Cardinality(PwIds(db))
        /\ AncestorQueue(i, db.pp).steps <= 2 * Cardinality(db.pp)
        /\ AncestorQueue(i, db.pp).ancestors = get_all_ancestors(i, db.pp)

\* C40: building and traversing the hierarchy always ends: the climbing loop
\* of build_hierarchy makes at most MaxLevel rounds whatever the oracle
\* answers and the build then finishes, and get_all_ancestors,
\* verify_chain_reaches_root and the ancestor recomputation end on every
\* graph, cyclic ones included
C40_BuildAndTraversalsTerminate ==
    /\ [](TraversalsBounded /\ (op \in {"build", "built"} => ctl.level <= MaxLevel + 1))
    /\ (op = "build") ~> (op = "built")

\* the oracle named a new parent in every round until the limit stopped the
\* loop, on a graph that has a cycle
C40_Witness ==
    /\ op = "built"
    /\ ctl.level = MaxLevel + 1
    /\ PathwayByName(db, FreshName(MaxLevel)) # 0
    /\ HasDirectedCycle(db.pp)

====
